---------------------------- MODULE Spec2Model ----------------------------
(***************************************************************************)
(* Model of the VISSA and iVISSA feature selectors of auswahl              *)
(* (src/auswahl/_vissa.py), and of the results store and the stability     *)
(* score of its benchmarking utilities (src/auswahl/benchmarking/util).    *)
(*                                                                         *)
(* Conventions.                                                            *)
(*  - Features and submodel columns are indexed from 0, as in the source.  *)
(*    A vector is a function over 0..n-1, a matrix a function from the     *)
(*    feature index to a row (a function over the column indices).         *)
(*  - Floating-point weights and scores are exact rationals [n, d], d > 0. *)
(*    Every weight of the program is 0.5 or count/selection_quantile and   *)
(*    every mean score is sum/selection_quantile, so nothing is rounded.   *)
(*  - The random generator is a 16-bit linear congruential generator; the  *)
(*    shuffle of arange(total) is an affine permutation picked by the      *)
(*    generator state.  Only "the permutation is a function of the         *)
(*    generator state, and the state advances" is taken from it.           *)
(*  - The scorer (cross_val_score on the masked data) is an external       *)
(*    collaborator: a deterministic function of the feature mask, drawn    *)
(*    in Init from a family of loss functions.                             *)
(***************************************************************************)
EXTENDS Integers, Sequences, FiniteSets, TLC

(***************************************************************************)
(* Bounds of the model.                                                    *)
(***************************************************************************)
\* number of features (columns of X) of the fitted data set
NFeatures == 4
\* seeds 1..MaxSeed+1 are tried for random_state, 0..MaxSeed for the sampler
MaxSeed == 1
\* benchmark: n_runs in 0..MaxRuns, lists of 0..MaxMethods methods, a data
\* set of NSamples samples
MaxRuns == 2
MaxMethods == 2
NSamples == 4
\* fit is called at most MaxFits times on one estimator
MaxFits == 2
\* sampler study: weight vectors of 1..SamplerFeats features
SamplerFeats == 2
\* sampler study: weights n/d with d in 1..MaxDen
MaxDen == 2
\* sampler study: submodel counts 1..MaxN
MaxN == 3
\* refinement study: number of features (columns of X)
RefineFeats == 8
\* expansion study: number of features (columns of X)
GrowFeats == 8
\* expansion study: y depends on a band of at most MaxBand adjacent features
MaxBand == 3

(***************************************************************************)
(* Program constants.                                                      *)
(***************************************************************************)
\* best_score = -10000000 (line 58), top_score = -10000000 (line 161)
Sentinel == -10000000
\* for i in range(5) (line 60)
InnerRounds == 5

\* None, for a weight vector; also the value of an attribute not yet assigned
NoneWeights == << >>
\* a local score not yet bound
NoScore == [n |-> 0, d |-> 0]
\* a binary sampling matrix not yet sampled
NoBsm == << >>
\* a Python object: the type that holds it, and its value
NoFeatures == [type |-> "None", items |-> << >>]
NoReturn == [value |-> [type |-> "None", items |-> << >>], score |-> NoScore]
\* no element of var_weights was accessed yet
NoProbe == [at |-> "None", index |-> 0, evaluated |-> FALSE,
            pass_start |-> << 0, 0 >>, passes |-> 0]
\* no getter of the results store was called yet
NoRequest == [getter |-> "None"]
NoAnswer == [kind |-> "None"]

(***************************************************************************)
(* Exact rationals.                                                        *)
(***************************************************************************)
Rat(n, d) == [n |-> n, d |-> d]
RatGT(a, b) == a.n * b.d > b.n * a.d
RatGE(a, b) == a.n * b.d >= b.n * a.d
RatEQ(a, b) == a.n * b.d = b.n * a.d

\* np.round: round half to even, of num/den with num >= 0 and den > 0
NpRound(num, den) ==
    LET q == num \div den
        r == num % den
    IN  IF 2 * r < den THEN q
        ELSE IF 2 * r > den THEN q + 1
        ELSE IF q % 2 = 0 THEN q ELSE q + 1

(***************************************************************************)
(* numpy.random.RandomState.  The generator is a 16-bit linear             *)
(* congruential generator.  shuffle(arange(total)) is a permutation of     *)
(* 0..total-1 that the state of the generator determines (here the affine  *)
(* map e -> (a*e + b) mod total, a and b taken from the state, a coprime   *)
(* with total), and it advances the state.                                 *)
(***************************************************************************)
\* the same function, its values computed once
Materialize(f) == f @@ << >>

\* RandomState(seed): the state a seed initialises the generator to
\* the exclusive upper end of the seeds benchmark draws
SeedRange == 1000000
SeedState(sd) == (sd * 7919 + 12345) % 65536
NextRng(s) == (s * 25173 + 13849) % 65536

RECURSIVE GCD(_, _)
GCD(a, b) == IF b = 0 THEN a ELSE GCD(b, a % b)
\* the least multiplier from a on that is coprime with total
RECURSIVE NextCoprime(_, _)
NextCoprime(a, total) ==
    IF GCD(a, total) = 1 THEN a ELSE NextCoprime(a + 1, total)
Multiplier(s, total) == NextCoprime(1 + ((s \div 16) % total), total)
Offset(s, total) == (s \div 256) % total

\* random_state.shuffle(p) for p = np.arange(total)
ShuffledArangeTwice(total, s) ==
    LET a == Multiplier(s, total)
        b == Offset(s, total)
    IN  [x |-> Materialize([e \in 0 .. total - 1 |-> (a * e + b) % total]),
         rng |-> NextRng(NextRng(s))]
ShuffledArange(total, s) ==
    LET a == Multiplier(s, total)
        b == Offset(s, total)
    IN  [x |-> Materialize([e \in 0 .. total - 1 |-> (a * e + b) % total]),
         rng |-> NextRng(s)]

(***************************************************************************)
(* _VISSA._produce_submodels                                               *)
(***************************************************************************)
\* appearances = np.round(var_weights * n_submodels)
AppearancesFloor(var_weights, n_submodels) ==
    [f \in DOMAIN var_weights |->
        (var_weights[f].n * n_submodels) \div var_weights[f].d]
Appearances(var_weights, n_submodels) ==
    [f \in DOMAIN var_weights |->
        NpRound(var_weights[f].n * n_submodels, var_weights[f].d)]

\* bsm = (tile(arange(1, n_submodels + 1)) <= appearances)
Populate(appearances, n_submodels) ==
    Materialize([f \in DOMAIN appearances |->
        Materialize([c \in 0 .. n_submodels - 1 |-> c + 1 <= appearances[f]])])

\* np.argsort of a row of distinct integers
ArgsortRow(row) ==
    LET rank == Materialize([c \in DOMAIN row |->
                    Cardinality({c2 \in DOMAIN row : row[c2] < row[c]})])
    IN  Materialize([r \in DOMAIN row |-> CHOOSE c \in DOMAIN row : rank[c] = r])

\* bsm[(row_selector, p)] reshaped to (n_feats, n_submodels)
PermuteSwappedShape(bsm, p, n_feats, n_submodels) ==
    LET flat == [k \in 0 .. n_feats * n_submodels - 1 |->
                    bsm[k \div n_submodels][p[k \div n_submodels][k % n_submodels]]]
    IN  [a \in 0 .. n_submodels - 1 |->
            [b \in 0 .. n_feats - 1 |-> flat[a * n_feats + b]]]
Permute(bsm, p, n_feats, n_submodels) ==
    Materialize([f \in 0 .. n_feats - 1 |->
        Materialize([c \in 0 .. n_submodels - 1 |-> bsm[f][p[f][c]]])])

VARIABLES
    \* ---- the estimator object (self) ----
    selector,               \* the class of self: "VISSA" or "iVISSA"
    n_features_to_select,   \* self.n_features_to_select; for iVISSA
                            \* n_intervals_to_select * interval_width
    n_submodels,            \* self.n_submodels
    seed,                   \* self.random_state, an integer seed
    attrs,                  \* the fitted attributes self carries
    weights_,               \* self.weights_
    support_,               \* self.support_
    \* ---- the data, seen through the scorer ----
    relevant,               \* the features y depends on
    base_loss,              \* the mean squared error of a perfect submodel
    noise_penalty,          \* what an irrelevant feature adds to the error
    min_features,           \* the estimator cannot be fitted on fewer features
    \* ---- the build ----
    argsort_memo,           \* np.argsort's answers so far: the input, and
                            \* the indices it put in the places that are read
    np_random,              \* state of numpy's global generator
    \* ---- locals of the running fit ----
    pc,                     \* position of the controlling thread
    random_state,           \* the RandomState made by check_random_state
    selection_quantile,
    top_score, top_var_weights, score, var_weights,
    i, best_score, best_var_weights,
    bsm,                    \* the matrix the last refinement round sampled
    \* ---- locals of _grow_intervals and _expand_interval ----
    features,               \* the feature list, and the type that holds it
    new_features,           \* the newly selected features, ascending
    grow_i,                 \* the loop index i of _grow_intervals
    borders, index, progress,
    probe,                  \* the index the last access var_weights[...] used,
                            \* whether that iteration called _evaluate, the
                            \* borders at the start of the current pass of the
                            \* while loop (an iteration with index 0 and one
                            \* with index 1) and the passes completed
    grown,                  \* what the last call of _grow_intervals returned
    \* ---- what callers observe ----
    raised,                 \* exception the last fit call ended with, or None
    query,                  \* outcome of the last support query
    n_fits,                 \* fit calls started so far
    fit_log,                \* support_ as left by each fit call that has ended
    \* ---- sampler study: _produce_submodels called on its own ----
    s_weights, s_n, s_rng, s_calls,
    \* ---- benchmarking: the results store and the stability metrics ----
    pandas_strict,          \* the installed pandas raises KeyError for a list
                            \* key of a MultiIndex that holds a missing label
    request,                \* the last call of a getter of the DataHandler
    answer,                 \* what that call returned or raised
    metric_log,             \* the calls of ZucknickScore(...) and their outcome
    \* ---- batch study: one evaluation batch and what is made of it ----
    completed,              \* the submodel indices in the order in which the
                            \* tasks of the batch completed
    \* ---- the outer loop of fit ----
    n_rounds,               \* calls of _yield_best_weights made by the fit
                            \* call in progress (or the last one)
    \* ---- the benchmark function (benchmark/_benchmarking.py) ----
    harness_pc,             \* where the call of benchmark(...) stands
    given_methods,          \* the argument methods, in the caller's order
    methods,                \* the local methods after line 26, with the
                            \* attributes of the method objects
    n_runs,                 \* the argument n_runs
    stability_metrics,      \* the argument stability_metrics
    harness_rng,            \* the state of the generator of line 29
    run_r,                  \* r of the loop of line 38
    run_seed,               \* seed of line 39
    train_test,             \* the split of line 40
    method_pos,             \* the position of the loop of line 41
    stab_pos,               \* the position of the loop of line 65
    pod,                    \* the register calls received by the recorder
    calls                   \* the calls benchmark made, in order

vars == << selector, n_features_to_select, n_submodels, seed,
           attrs, weights_, support_,
           relevant, base_loss, noise_penalty, min_features,
           argsort_memo, np_random,
           pc, random_state, selection_quantile,
           top_score, top_var_weights, score, var_weights,
           i, best_score, best_var_weights, bsm,
           features, new_features, grow_i, borders, index, progress,
           probe, grown,
           raised, query, n_fits, fit_log,
           s_weights, s_n, s_rng, s_calls,
           pandas_strict, request, answer, metric_log,
           completed, n_rounds,
           harness_pc, given_methods, methods, n_runs, stability_metrics,
           harness_rng, run_r, run_seed, train_test, method_pos,
           stab_pos, pod, calls >>

estimator_vars == << selector, n_features_to_select, n_submodels, seed,
                     attrs, weights_, support_ >>
data_vars == << relevant, base_loss, noise_penalty, min_features >>
local_vars == << pc, random_state, selection_quantile, top_score,
                 top_var_weights, score, var_weights,
                 i, best_score, best_var_weights, bsm >>
grow_vars == << features, new_features, grow_i, borders, index, progress,
                probe, grown >>
observer_vars == << raised, query, n_fits, fit_log >>
sampler_vars == << s_weights, s_n, s_rng, s_calls >>
bench_vars == << pandas_strict, request, answer, metric_log >>
batch_vars == << completed >>
round_vars == << n_rounds >>
harness_vars == << harness_pc, given_methods, methods, n_runs,
                   stability_metrics, harness_rng, run_r, run_seed,
                   train_test, method_pos, stab_pos, pod, calls >>

\* The whole sampler: the matrix and the state random_state is left in.
ProduceSubmodelsGlobalRng(weights, n_subs, rng) ==
    LET n_feats == Cardinality(DOMAIN weights)
        populated == Populate(Appearances(weights, n_subs), n_subs)
        total == n_subs * n_feats
        sh == ShuffledArange(total, np_random)
        p == Materialize([f \in 0 .. n_feats - 1 |->
                ArgsortRow(Materialize([c \in 0 .. n_subs - 1 |->
                                           sh.x[f * n_subs + c]]))])
    IN  [bsm |-> Permute(populated, p, n_feats, n_subs), random_state |-> rng]
ProduceSubmodels(weights, n_subs, rng) ==
    LET n_feats == Cardinality(DOMAIN weights)
        populated == Populate(Appearances(weights, n_subs), n_subs)
        \* p = np.arange(n_submodels * n_feats); random_state.shuffle(p)
        total == n_subs * n_feats
        sh == ShuffledArange(total, rng)
        \* p = np.reshape(p, (n_feats, n_submodels)); np.argsort(p, axis=1)
        p == Materialize([f \in 0 .. n_feats - 1 |->
                ArgsortRow(Materialize([c \in 0 .. n_subs - 1 |->
                                           sh.x[f * n_subs + c]]))])
    IN  [bsm |-> Permute(populated, p, n_feats, n_subs),
         random_state |-> sh.rng]

(***************************************************************************)
(* The estimator before any fit, and the idle locals.                      *)
(***************************************************************************)
Features == 0 .. NFeatures - 1
IdleLocals ==
    /\ pc = "idle"
    /\ random_state = 0
    /\ selection_quantile = 0
    /\ top_score = NoScore
    /\ top_var_weights = NoneWeights
    /\ score = NoScore
    /\ var_weights = NoneWeights
    /\ i = 0
    /\ best_score = NoScore
    /\ best_var_weights = NoneWeights
    /\ bsm = NoBsm
IdleGrow ==
    /\ features = NoFeatures
    /\ new_features = << >>
    /\ grow_i = 0
    /\ borders = << 0, 0 >>
    /\ index = 0
    /\ progress = FALSE
    /\ probe = NoProbe
    /\ grown = NoReturn
NoObservations ==
    /\ raised = "None"
    /\ query = [kind |-> "none", mask |-> << >>]
    /\ n_fits = 0
    /\ fit_log = << >>
IdleSampler ==
    /\ s_weights = << >>
    /\ s_n = 1
    /\ s_rng = 0
    /\ s_calls = << >>
IdleRounds ==
    /\ n_rounds = 0
IdleBatch ==
    /\ completed = << >>
IdleHarness ==
    /\ harness_pc = "idle"
    /\ given_methods = << >>
    /\ methods = << >>
    /\ n_runs = 0
    /\ stability_metrics = << >>
    /\ harness_rng = 0
    /\ run_r = 0
    /\ run_seed = 0
    /\ train_test = [train |-> {}, test |-> {}]
    /\ method_pos = 0
    /\ stab_pos = 0
    /\ pod = << >>
    /\ calls = << >>
IdleBench ==
    /\ pandas_strict = FALSE
    /\ request = NoRequest
    /\ answer = NoAnswer
    /\ metric_log = << >>

(***************************************************************************)
(* Sampler study: _produce_submodels applied to arbitrary weights in       *)
(* [0,1], a submodel count and a generator state; every call gets a        *)
(* generator in the same state s_rng.  Between the calls other code may    *)
(* draw from numpy's global generator.                                     *)
(***************************************************************************)
SamplerWeights == { r \in [n : 0 .. MaxDen, d : 1 .. MaxDen] : r.n <= r.d }
SamplerInit ==
    /\ \E nf \in 1 .. SamplerFeats : s_weights \in [0 .. nf - 1 -> SamplerWeights]
    /\ s_n \in 1 .. MaxN
    /\ \E sd \in 0 .. MaxSeed : s_rng = SeedState(sd)
    /\ s_calls = << >>
    /\ np_random = SeedState(0)
    /\ selector = "VISSA"
    /\ n_features_to_select = 1
    /\ n_submodels = 1
    /\ seed = 0
    /\ attrs = {}
    /\ weights_ = NoneWeights
    /\ support_ = << >>
    /\ relevant = {}
    /\ base_loss = 0
    /\ noise_penalty = 0
    /\ min_features = 0
    /\ argsort_memo = {}
    /\ IdleLocals
    /\ IdleGrow
    /\ NoObservations
    /\ IdleHarness
    /\ IdleRounds
    /\ IdleBatch
    /\ IdleBench

SamplerCall ==
    /\ Len(s_calls) < 2
    /\ s_calls' = Append(s_calls, [out |-> ProduceSubmodels(s_weights, s_n, s_rng),
                                    np_random |-> np_random])
    /\ UNCHANGED << s_weights, s_n, s_rng, np_random, argsort_memo,
                    batch_vars,
                    round_vars,
                    harness_vars >>
    /\ UNCHANGED << estimator_vars, data_vars, local_vars, grow_vars,
                    observer_vars, bench_vars,
                    batch_vars,
                    round_vars,
                    harness_vars >>

\* unrelated code draws from numpy's global generator
GlobalDraw ==
    /\ np_random = SeedState(0)
    /\ np_random' = NextRng(np_random)
    /\ UNCHANGED << sampler_vars, argsort_memo >>
    /\ UNCHANGED << estimator_vars, data_vars, local_vars, grow_vars,
                    observer_vars, bench_vars,
                    batch_vars,
                    round_vars,
                    harness_vars >>

SamplerNext == SamplerCall \/ GlobalDraw
SamplerSpec == SamplerInit /\ [][SamplerNext]_vars

(***************************************************************************)
(* The scorer: the mean over the folds of cross_val_score(pls, X[:, mask],  *)
(* y, scoring='neg_mean_squared_error').  The error of a submodel grows    *)
(* with every relevant feature it lacks and, when noise is penalised, with *)
(* every irrelevant feature it carries.                                    *)
(***************************************************************************)
Evaluate(mask) ==
    LET sel == {f \in DOMAIN mask : mask[f]}
    IN  0 - (base_loss + 2 * Cardinality(relevant \ sel)
                       + noise_penalty * Cardinality(sel \ relevant))

\* cross_val_score raises what the estimator raises when it cannot be fitted
\* on the columns of the mask
TaskFails(mask) ==
    Cardinality({f \in DOMAIN mask : mask[f]}) < min_features

\* X[:, bsm[:, i]]: the mask of submodel c
Submodel(matrix, c) == [f \in DOMAIN matrix |-> matrix[f][c]]

\* _evaluate_submodels: the score of column c of bsm, for c in range(n_submodels)
EvaluateSubmodels(matrix) ==
    Materialize([c \in 0 .. n_submodels - 1 |-> Evaluate(Submodel(matrix, c))])

\* Parallel(...)(...) raises in the caller what a task raised; no task is
\* run again and no result of the batch is returned
BatchFailsNever(matrix) == FALSE
BatchFails(matrix) ==
    \E c \in 0 .. n_submodels - 1 : TaskFails(Submodel(matrix, c))

\* sorted(submodels, key=lambda x: -x[0])[: selection_quantile], the indices:
\* sorted is stable, so equal scores stay in submodel order
TopModelsAscending(submodels, quantile) ==
    LET rank == Materialize([c \in DOMAIN submodels |->
                    Cardinality({c2 \in DOMAIN submodels :
                        \/ submodels[c2] < submodels[c]
                        \/ submodels[c2] = submodels[c] /\ c2 < c})])
    IN  Materialize([r \in 1 .. quantile |->
                        CHOOSE c \in DOMAIN submodels : rank[c] = r - 1])
TopModels(submodels, quantile) ==
    LET rank == Materialize([c \in DOMAIN submodels |->
                    Cardinality({c2 \in DOMAIN submodels :
                        \/ submodels[c2] > submodels[c]
                        \/ submodels[c2] = submodels[c] /\ c2 < c})])
    IN  Materialize([r \in 1 .. quantile |->
                        CHOOSE c \in DOMAIN submodels : rank[c] = r - 1])

RECURSIVE SumScores(_, _, _)
SumScores(submodels, top_models, r) ==
    IF r = 0 THEN 0
    ELSE submodels[top_models[r]] + SumScores(submodels, top_models, r - 1)

\* avg_top_scores = np.mean(top_scores)
AvgTopScores(submodels, top_models) ==
    Rat(SumScores(submodels, top_models, Len(top_models)), Len(top_models))

\* np.sum(bsm[:, top_models], axis=1) / selection_quantile
CandidateWeights(matrix, top_models, quantile) ==
    [f \in DOMAIN matrix |->
        Rat(Cardinality({r \in 1 .. quantile : matrix[f][top_models[r]]}),
            quantile)]

\* if avg_top_scores > best_score
ImprovesOrEqual(avg_top_scores, best) == RatGE(avg_top_scores, best)
Improves(avg_top_scores, best) == RatGT(avg_top_scores, best)

\* for i in range(5): another round follows the improving round i
MoreRoundsSix(round) == round + 1 < InnerRounds + 1
MoreRounds(round) == round + 1 < InnerRounds

\* if score > top_score (lines 170 and 284)
AcceptsEqual(returned, top) == RatGE(returned, top)
Accepts(returned, top) == RatGT(returned, top)

\* top_score = score (lines 171 and 286)
NewTopScoreKept(accepted, top) == top
NewTopScore(accepted, top) == accepted

\* selection_quantile = int(0.05 * self.n_submodels)
SelectionQuantileCeil(n_subs) == (n_subs + 19) \div 20
SelectionQuantile(n_subs) == n_subs \div 20

\* check_random_state(self.random_state) for an integer seed: a new generator
CheckRandomStateKept(sd) == IF n_fits = 0 THEN SeedState(sd) ELSE random_state
CheckRandomState(sd) == SeedState(sd)

\* np.sum(var_weights >= ((n_subs - 0.5)/n_subs)) >= n_features_to_select
EarlyStoppingStrict(weights, n_subs, k) ==
    Cardinality({f \in DOMAIN weights :
        RatGE(weights[f], Rat(2 * n_subs - 1, 2 * n_subs))}) > k
EarlyStopping(weights, n_subs, k) ==
    Cardinality({f \in DOMAIN weights :
        RatGE(weights[f], Rat(2 * n_subs - 1, 2 * n_subs))}) >= k

\* np.argsort(-var_weights)[: k]: the features in the first k places of an
\* order by descending weight.  The default kind is not a stable sort, so the
\* order among equal weights is whatever the build's sort produces: every set
\* of k features that no feature outside it outweighs is a possible outcome.
LeadingOutcomesAscending(weights, k) ==
    {sel \in SUBSET DOMAIN weights :
        /\ Cardinality(sel) = k
        /\ \A f \in sel : \A g \in DOMAIN weights \ sel :
              RatGE(weights[g], weights[f])}
LeadingOutcomes(weights, k) ==
    {sel \in SUBSET DOMAIN weights :
        /\ Cardinality(sel) = k
        /\ \A f \in sel : \A g \in DOMAIN weights \ sel :
              RatGE(weights[f], weights[g])}

\* support_ = zeros; support_[selected] = True
SupportOf(selected, n_feats) == [f \in 0 .. n_feats - 1 |-> f \in selected]

(***************************************************************************)
(* VISSA.fit                                                               *)
(***************************************************************************)
NSubmodelsChoices == {19, 20, 40}
\* y depends on the first r features, r = 0 .. NFeatures
RelevantChoices == {0 .. r - 1 : r \in 0 .. NFeatures}
\* errors far from the sentinel of the loops, and errors around it
BaseLosses == {0, 0 - Sentinel - 1}
\* an estimator that fits any submodel, and one that needs a feature
MinFeaturesChoices == {0, 1}

Init ==
    /\ selector = "VISSA"
    /\ n_features_to_select \in 1 .. NFeatures
    /\ n_submodels \in NSubmodelsChoices
    /\ seed \in 1 .. MaxSeed + 1
    /\ attrs = {}
    /\ weights_ = NoneWeights
    /\ support_ = << >>
    /\ relevant \in RelevantChoices
    /\ base_loss \in BaseLosses
    /\ noise_penalty \in {0, 1}
    /\ min_features \in MinFeaturesChoices
    /\ argsort_memo = {}
    /\ np_random = SeedState(0)
    /\ IdleLocals
    /\ IdleGrow
    /\ NoObservations
    /\ IdleHarness
    /\ IdleRounds
    /\ IdleBatch
    /\ IdleSampler
    /\ IdleBench

\* the call that ended leaves its locals behind; callers see what it raised
EndFit(exception, new_attrs, new_support) ==
    /\ pc' = "idle"
    /\ raised' = exception
    /\ fit_log' = Append(fit_log, [raised |-> exception, attrs |-> new_attrs,
                                    support_ |-> new_support])

\* lines 155-162, and the first call of _yield_best_weights (lines 58-59)
FitStart ==
    /\ pc = "idle"
    /\ n_fits < MaxFits
    /\ n_fits' = n_fits + 1
    /\ raised' = "None"
    /\ random_state' = CheckRandomState(seed)
    /\ selection_quantile' = SelectionQuantile(n_submodels)
    /\ top_score' = Rat(Sentinel, 1)
    /\ top_var_weights' = [f \in Features |-> Rat(1, 2)]
    /\ score' = NoScore
    /\ var_weights' = NoneWeights
    /\ best_score' = Rat(Sentinel, 1)
    /\ best_var_weights' = NoneWeights
    /\ i' = 0
    /\ pc' = "yield"
    /\ n_rounds' = 1
    /\ bsm' = NoBsm
    /\ query' = [kind |-> "none", mask |-> << >>]
    /\ UNCHANGED << estimator_vars, data_vars, argsort_memo, np_random,
                    fit_log, grow_vars, sampler_vars, bench_vars,
                    batch_vars,
                    harness_vars >>

\* one iteration of the loop of _yield_best_weights (lines 60-78)
InnerRound ==
    /\ pc = "yield"
    /\ LET made == ProduceSubmodels(top_var_weights, n_submodels, random_state)
           submodels == EvaluateSubmodels(made.bsm)
           top_models == TopModels(submodels, selection_quantile)
           avg_top_scores == AvgTopScores(submodels, top_models)
       IN  /\ random_state' = made.random_state
           /\ bsm' = made.bsm
           /\ IF BatchFails(made.bsm)
              THEN \* a task of the batch raised: _evaluate_submodels raises
                   /\ EndFit("FitFailed", attrs, support_)
                   /\ UNCHANGED << i, best_score, best_var_weights >>
              ELSE IF selection_quantile = 0
              THEN \* top_scores, top_models = list(zip(*[])): nothing to unpack
                   /\ EndFit("ValueError", attrs, support_)
                   /\ UNCHANGED << i, best_score, best_var_weights >>
              ELSE IF Improves(avg_top_scores, best_score)
              THEN /\ best_score' = avg_top_scores
                   /\ best_var_weights' =
                          CandidateWeights(made.bsm, top_models, selection_quantile)
                   /\ i' = i + 1
                   /\ pc' = IF MoreRounds(i) THEN "yield" ELSE "inner_done"
                   /\ UNCHANGED << raised, fit_log >>
              ELSE /\ pc' = "inner_done"
                   /\ UNCHANGED << i, best_score, best_var_weights,
                                   raised, fit_log >>
    /\ UNCHANGED << estimator_vars, data_vars, argsort_memo, np_random,
                    selection_quantile, top_score, top_var_weights,
                    score, var_weights, query, n_fits, grow_vars,
                    sampler_vars, bench_vars,
                    batch_vars,
                    round_vars,
                    harness_vars >>

\* _yield_best_weights returns; if score > top_score (lines 164-172)
OuterAccept ==
    /\ selector = "VISSA"
    /\ pc = "inner_done"
    /\ Accepts(best_score, top_score)
    /\ score' = best_score
    /\ var_weights' = best_var_weights
    /\ top_score' = NewTopScore(best_score, top_score)
    /\ top_var_weights' = best_var_weights
    /\ pc' = "accepted"
    /\ UNCHANGED << estimator_vars, data_vars, argsort_memo, np_random,
                    random_state, selection_quantile,
                    i, best_score, best_var_weights, bsm,
                    grow_vars, observer_vars, sampler_vars, bench_vars,
                    batch_vars,
                    round_vars,
                    harness_vars >>

\* _yield_best_weights returns; else: break (lines 164-174)
OuterReject ==
    /\ pc = "inner_done"
    /\ ~ Accepts(best_score, top_score)
    /\ score' = best_score
    /\ var_weights' = best_var_weights
    /\ pc' = "finish"
    /\ UNCHANGED << estimator_vars, data_vars, argsort_memo, np_random,
                    random_state, selection_quantile, top_score, top_var_weights,
                    i, best_score, best_var_weights, bsm,
                    grow_vars, observer_vars, sampler_vars, bench_vars,
                    batch_vars,
                    round_vars,
                    harness_vars >>

\* early stopping (lines 177-178)
EarlyStop ==
    /\ pc = "accepted"
    /\ EarlyStopping(var_weights, n_submodels, n_features_to_select)
    /\ pc' = "finish"
    /\ UNCHANGED << estimator_vars, data_vars, argsort_memo, np_random,
                    random_state, selection_quantile, top_score, top_var_weights,
                    score, var_weights, i, best_score, best_var_weights, bsm,
                    grow_vars, observer_vars, sampler_vars, bench_vars,
                    batch_vars,
                    round_vars,
                    harness_vars >>

\* no early stopping: the while loop calls _yield_best_weights again
NextRound ==
    /\ pc = "accepted"
    /\ ~ EarlyStopping(var_weights, n_submodels, n_features_to_select)
    /\ best_score' = Rat(Sentinel, 1)
    /\ best_var_weights' = NoneWeights
    /\ i' = 0
    /\ pc' = "yield"
    /\ n_rounds' = n_rounds + 1
    /\ UNCHANGED << estimator_vars, data_vars, argsort_memo, np_random,
                    random_state, selection_quantile, top_score, top_var_weights,
                    score, var_weights, bsm, grow_vars,
                    observer_vars, sampler_vars, bench_vars,
                    batch_vars,
                    harness_vars >>

(***************************************************************************)
(* Refinement study: _yield_best_weights called on its own with weights    *)
(* 0.5 over RefineFeats features, on generators in several states, so that *)
(* calls of one to five rounds occur.                                      *)
(***************************************************************************)
RefineSeeds == {2, 19, 42}
RefineInit ==
    /\ selector = "VISSA"
    /\ n_features_to_select = 1
    /\ n_submodels \in {20, 40}
    /\ seed \in RefineSeeds
    /\ attrs = {}
    /\ weights_ = NoneWeights
    /\ support_ = << >>
    /\ relevant \in {0 .. r - 1 : r \in 0 .. RefineFeats}
    /\ base_loss = 0
    /\ noise_penalty \in {0, 1}
    /\ min_features = 0
    /\ argsort_memo = {}
    /\ np_random = SeedState(0)
    /\ pc = "yield"
    /\ random_state = CheckRandomState(seed)
    /\ selection_quantile = SelectionQuantile(n_submodels)
    /\ top_score = Rat(Sentinel, 1)
    /\ top_var_weights = [f \in 0 .. RefineFeats - 1 |-> Rat(1, 2)]
    /\ score = NoScore
    /\ var_weights = NoneWeights
    /\ i = 0
    /\ best_score = Rat(Sentinel, 1)
    /\ best_var_weights = NoneWeights
    /\ bsm = NoBsm
    /\ IdleGrow
    /\ NoObservations
    /\ IdleHarness
    /\ IdleRounds
    /\ IdleBatch
    /\ IdleSampler
    /\ IdleBench

RefineNext == InnerRound
RefineSpec == RefineInit /\ [][RefineNext]_vars

(***************************************************************************)
(* Batch study: one evaluation batch of _yield_best_weights and the        *)
(* weights made of it, when the list of results reaches the loop in the    *)
(* order in which the tasks completed.  (joblib's Parallel hands the list  *)
(* over in submission order, which is one of the orders.)  The scorer      *)
(* charges every irrelevant feature f its own penalty 2^f when noise is    *)
(* penalised, so that batches without two equal scores occur, and batches  *)
(* whose scores are all equal.                                             *)
(***************************************************************************)
RECURSIVE Graded(_)
Graded(set) ==
    IF set = {} THEN 0
    ELSE LET f == CHOOSE x \in set : TRUE
         IN  2 ^ f + Graded(set \ {f})
EvaluateGraded(mask) ==
    LET sel == {f \in DOMAIN mask : mask[f]}
    IN  0 - (base_loss + 2 * Cardinality(relevant \ sel)
                       + noise_penalty * Graded(sel \ relevant))

\* return np.mean(cv_scores), submodel_index (line 48): the results of the
\* tasks (lines 51-54), listed in the order given
Results(matrix, order) ==
    Materialize([k \in 1 .. Len(order) |->
        [score |-> EvaluateGraded(Submodel(matrix, order[k])),
         index |-> order[k]]])

\* the submodel a result belongs to is the index it carries (x[1], line 70)
IndexByPosition(results, k) == k - 1
IndexOf(results, k) == results[k].index

\* sorted(submodels, key=lambda x: -x[0])[: selection_quantile] (lines 67,
\* 70): the positions in the list of the results that come first; sorted is
\* stable
SortedTop(results, quantile) ==
    LET rank == Materialize([k \in DOMAIN results |->
                    Cardinality({k2 \in DOMAIN results :
                        \/ results[k2].score > results[k].score
                        \/ results[k2].score = results[k].score /\ k2 < k})])
    IN  Materialize([r \in 1 .. quantile |->
                        CHOOSE k \in DOMAIN results : rank[k] = r - 1])

\* the orders of completion tried: the tasks complete in submission order
\* or in the reverse of it, starting from any task
CompletionOrders(n_subs) ==
    {[k \in 1 .. n_subs |-> (first + k - 1) % n_subs] : first \in 0 .. n_subs - 1}
    \cup {[k \in 1 .. n_subs |-> (first + n_subs - k) % n_subs] :
            first \in 0 .. n_subs - 1}

BatchInit ==
    /\ selector = "VISSA"
    /\ n_features_to_select = 1
    /\ n_submodels \in {20, 40}
    /\ seed \in RefineSeeds
    /\ attrs = {}
    /\ weights_ = NoneWeights
    /\ support_ = << >>
    /\ relevant \in {{}, 0 .. RefineFeats - 1}
    /\ base_loss = 0
    /\ noise_penalty \in {0, 1}
    /\ min_features = 0
    /\ argsort_memo = {}
    /\ np_random = SeedState(0)
    /\ pc = "yield"
    /\ random_state = CheckRandomState(seed)
    /\ selection_quantile = SelectionQuantile(n_submodels)
    /\ top_score = Rat(Sentinel, 1)
    /\ top_var_weights = [f \in 0 .. RefineFeats - 1 |-> Rat(1, 2)]
    /\ score = NoScore
    /\ var_weights = NoneWeights
    /\ i = 0
    /\ best_score = Rat(Sentinel, 1)
    /\ best_var_weights = NoneWeights
    /\ bsm = NoBsm
    /\ IdleGrow
    /\ NoObservations
    /\ IdleHarness
    /\ IdleRounds
    /\ IdleSampler
    /\ IdleBench
    /\ IdleBatch

\* the first iteration of the loop of _yield_best_weights (lines 63-76), its
\* batch completing in some order
BatchRound ==
    /\ pc = "yield"
    /\ i = 0
    /\ LET made == ProduceSubmodels(top_var_weights, n_submodels, random_state)
       IN
       \E order \in CompletionOrders(n_submodels) :
        LET results == Results(made.bsm, order)
            top == SortedTop(results, selection_quantile)
            top_models == Materialize([r \in 1 .. selection_quantile |->
                                          IndexOf(results, top[r])])
            top_scores == Materialize([r \in 1 .. selection_quantile |->
                                          results[top[r]].score])
            avg_top_scores == Rat(SumScores(top_scores,
                                            [r \in 1 .. selection_quantile |-> r],
                                            selection_quantile),
                                  selection_quantile)
        IN  /\ completed' = order
            /\ random_state' = made.random_state
            /\ bsm' = made.bsm
            /\ i' = 1
            /\ IF Improves(avg_top_scores, best_score)
               THEN /\ best_score' = avg_top_scores
                    /\ best_var_weights' = CandidateWeights(made.bsm, top_models,
                                                            selection_quantile)
                    /\ pc' = "yield"
               ELSE /\ pc' = "inner_done"
                    /\ UNCHANGED << best_score, best_var_weights >>
    /\ UNCHANGED << estimator_vars, data_vars, argsort_memo, np_random,
                    selection_quantile, top_score, top_var_weights,
                    score, var_weights,
                    grow_vars, observer_vars, sampler_vars, bench_vars,
                    round_vars,
                    harness_vars >>

BatchNext == BatchRound
BatchSpec == BatchInit /\ [][BatchNext]_vars

(***************************************************************************)
(* iVISSA: _newly_selected, _expand_interval, _grow_intervals.  The prior  *)
(* weights are top_var_weights, the new weights var_weights (changed in    *)
(* place), the score is score.                                             *)
(***************************************************************************)
\* threshold = (n_submodels - 0.5) / n_submodels
Threshold(n_subs) == Rat(2 * n_subs - 1, 2 * n_subs)

\* np.nonzero(weights >= threshold)[0], as a set
Selected(weights, n_subs) ==
    {f \in DOMAIN weights : RatGE(weights[f], Threshold(n_subs))}

\* the elements of a set of integers in ascending order
RECURSIVE Ascending(_)
Ascending(set) ==
    IF set = {} THEN << >>
    ELSE LET least == CHOOSE x \in set : \A y \in set : x <= y
         IN  << least >> \o Ascending(set \ {least})

\* _newly_selected: new_selected, np.setdiff1d(new_selected, old_selected)
NewlySelectedOnly(prior, next, n_subs) ==
    [features |-> [type |-> "ndarray",
                   items |-> Ascending(Selected(next, n_subs) \ Selected(prior, n_subs))],
     new_features |-> Ascending(Selected(next, n_subs) \ Selected(prior, n_subs))]
NewlySelected(prior, next, n_subs) ==
    [features |-> [type |-> "ndarray",
                   items |-> Ascending(Selected(next, n_subs))],
     new_features |-> Ascending(Selected(next, n_subs) \ Selected(prior, n_subs))]

\* limits = [0, -(X.shape[1] - 1)]
Limits(n_feats) == << 0, 0 - (n_feats - 1) >>

\* borders[index] += (1 - index) * -1 + index * 1
Advance(bs, ix) == [bs EXCEPT ![ix + 1] = bs[ix + 1] + (1 - ix) * (0 - 1) + ix * 1]

\* numpy indexing of an array of length n_feats: an index from -n_feats to
\* n_feats - 1 names an element (a negative one counts from the end), any
\* other index raises IndexError
IndexInRange(ix, n_feats) == 0 - n_feats <= ix /\ ix < n_feats
Element(ix, n_feats) == IF ix < 0 THEN ix + n_feats ELSE ix

\* if feature_score > score (line 240)
KeepsEqual(feature_score, current) == RatGE(feature_score, current)
KeepsAlways(feature_score, current) == TRUE
Keeps(feature_score, current) == RatGT(feature_score, current)

\* the mask of X[:, features + [b]]
MaskOfLast(items, n_feats) ==
    [f \in 0 .. n_feats - 1 |-> Len(items) > 0 /\ items[Len(items)] = f]
MaskOf(items, n_feats) ==
    [f \in 0 .. n_feats - 1 |-> \E j \in 1 .. Len(items) : items[j] = f]

\* line 257, entered with the prior and the new weights
GrowEnter(prior, next) ==
    LET found == NewlySelected(prior, next, n_submodels)
    IN  /\ features' = found.features
        /\ new_features' = found.new_features
        /\ grow_i' = 0
        /\ pc' = "grow"

\* progress = True (line 230)
InitialProgressFalse == FALSE
InitialProgress == TRUE

\* for i in range(new_features.size): _expand_interval is called (lines
\* 224-230).  features.tolist() needs an ndarray.
ExpandStart ==
    /\ pc = "grow"
    /\ grow_i < Len(new_features)
    /\ IF features.type # "ndarray"
       THEN /\ EndFit("AttributeError", attrs, support_)
            /\ UNCHANGED << features, borders, index, progress, probe >>
       ELSE /\ features' = [type |-> "list", items |-> features.items]
            /\ borders' = << new_features[grow_i + 1] - 1,
                             new_features[grow_i + 1] + 1 >>
            /\ index' = 0
            /\ progress' = InitialProgress
            /\ probe' = [probe EXCEPT !.pass_start = borders', !.passes = 0]
            /\ pc' = "expand"
            /\ UNCHANGED << raised, fit_log >>
    /\ UNCHANGED << estimator_vars, data_vars, argsort_memo, np_random,
                    random_state, selection_quantile, top_score, top_var_weights,
                    score, var_weights, i, best_score, best_var_weights, bsm,
                    new_features, grow_i, grown,
                    query, n_fits, sampler_vars, bench_vars,
                    batch_vars,
                    round_vars,
                    harness_vars >>

\* one iteration of the while loop of _expand_interval (lines 232-252), and
\* the return to _grow_intervals when it breaks (lines 254, 259)
ExpandStep ==
    /\ pc = "expand"
    /\ LET n_feats == Cardinality(DOMAIN var_weights)
           b == borders[index + 1]
           at == Element(b, n_feats)
           probes == b >= Limits(n_feats)[index + 1]
           absorbs == RatGE(var_weights[at], Threshold(n_submodels))
           augmented == MaskOf(Append(features.items, b), n_feats)
           feature_score == Rat(Evaluate(augmented), 1)
           adds == Keeps(feature_score, score)
           moved == probes /\ (absorbs \/ adds)
           progressed == progress \/ moved
           raises == probes /\ (~ IndexInRange(b, n_feats)
                                 \/ (~ absorbs /\ TaskFails(augmented)))
           probed == IF probes
                     THEN [probe EXCEPT
                             !.at = "var_weights", !.index = b,
                             !.evaluated = IndexInRange(b, n_feats) /\ ~ absorbs]
                     ELSE probe
       IN  /\ probe' = IF index = 1 /\ ~ raises
                        THEN [probed EXCEPT !.passes = @ + 1,
                                            !.pass_start =
                                                IF moved
                                                THEN Advance(borders, index)
                                                ELSE borders]
                        ELSE probed
           /\ IF probes /\ ~ IndexInRange(b, n_feats)
              THEN \* var_weights[borders[index]] raises
                   /\ EndFit("IndexError", attrs, support_)
                   /\ UNCHANGED << score, var_weights, features, borders,
                                   index, progress, grow_i >>
              ELSE IF probes /\ ~ absorbs /\ TaskFails(augmented)
              THEN /\ EndFit("FitFailed", attrs, support_)
                   /\ UNCHANGED << score, var_weights, features, borders,
                                   index, progress, grow_i >>
              ELSE /\ IF probes /\ ~ absorbs /\ adds
                      THEN /\ score' = feature_score
                           /\ features' = [features EXCEPT
                                              !.items = Append(@, b)]
                           /\ var_weights' = [var_weights EXCEPT
                                                 ![at] = Rat(1, 1)]
                      ELSE UNCHANGED << score, features, var_weights >>
                   /\ borders' = IF moved THEN Advance(borders, index)
                                          ELSE borders
                   /\ IF index = 1 /\ ~ progressed
                      THEN \* break; return features, score
                           /\ grow_i' = grow_i + 1
                           /\ pc' = "grow"
                           /\ UNCHANGED << index, progress >>
                      ELSE /\ progress' = IF index = 1 THEN FALSE
                                                       ELSE progressed
                           /\ index' = (index + 1) % 2
                           /\ UNCHANGED << grow_i, pc >>
                   /\ UNCHANGED << raised, fit_log >>
    /\ UNCHANGED << estimator_vars, data_vars, argsort_memo, np_random,
                    random_state, selection_quantile, top_score, top_var_weights,
                    i, best_score, best_var_weights, bsm,
                    new_features, grown, query, n_fits, sampler_vars, bench_vars,
                    batch_vars,
                    round_vars,
                    harness_vars >>

\* return next_var_weights, score (line 262)
GrowReturn ==
    /\ pc = "grow"
    /\ grow_i = Len(new_features)
    /\ grown' = [value |-> [type |-> "weights", items |-> var_weights],
                 score |-> score]
    /\ pc' = "grown"
    /\ UNCHANGED << estimator_vars, data_vars, argsort_memo, np_random,
                    random_state, selection_quantile, top_score, top_var_weights,
                    score, var_weights, i, best_score, best_var_weights, bsm,
                    features, new_features, grow_i, borders, index, progress,
                    probe, observer_vars, sampler_vars, bench_vars,
                    batch_vars,
                    round_vars,
                    harness_vars >>

(***************************************************************************)
(* Expansion study: _grow_intervals called on its own, on prior and new    *)
(* weights over GrowFeats features in which zero, one or two features are  *)
(* at the threshold (any of them already so in the prior weights), with    *)
(* the score of the features at the threshold, on data that depend on a    *)
(* band of adjacent features.                                              *)
(***************************************************************************)
GrowFeatures == 0 .. GrowFeats - 1
\* the weights with exactly the features of set at the threshold
WeightsOf(set) == [f \in GrowFeatures |-> IF f \in set THEN Rat(1, 1) ELSE Rat(1, 2)]
Bands == {{}} \cup {a .. b : a \in GrowFeatures, b \in GrowFeatures}
GrowInit ==
    /\ selector = "iVISSA"
    /\ n_features_to_select = 1
    /\ n_submodels = 20
    /\ seed = 0
    /\ attrs = {}
    /\ weights_ = NoneWeights
    /\ support_ = << >>
    /\ relevant \in {band \in Bands : Cardinality(band) <= MaxBand}
    /\ base_loss = 0
    /\ noise_penalty \in {0, 1}
    /\ min_features = 0
    /\ argsort_memo = {}
    /\ np_random = SeedState(0)
    /\ pc = "grow_call"
    /\ random_state = 0
    /\ selection_quantile = 1
    /\ top_score = NoScore
    /\ \E f1 \in GrowFeatures, f2 \in GrowFeatures :
          \E confirmed \in {{}, {f1, f2}} :
             /\ var_weights = WeightsOf(confirmed)
             /\ \E before \in SUBSET confirmed : top_var_weights = WeightsOf(before)
             /\ score = Rat(Evaluate(MaskOf(Ascending(confirmed), GrowFeats)), 1)
    /\ i = 0
    /\ best_score = NoScore
    /\ best_var_weights = NoneWeights
    /\ bsm = NoBsm
    /\ IdleGrow
    /\ NoObservations
    /\ IdleHarness
    /\ IdleRounds
    /\ IdleBatch
    /\ IdleSampler
    /\ IdleBench

\* _grow_intervals is called (line 257)
GrowCall ==
    /\ pc = "grow_call"
    /\ GrowEnter(top_var_weights, var_weights)
    /\ UNCHANGED << estimator_vars, data_vars, argsort_memo, np_random,
                    random_state, selection_quantile, top_score, top_var_weights,
                    score, var_weights, i, best_score, best_var_weights, bsm,
                    borders, index, progress, probe, grown,
                    observer_vars, sampler_vars, bench_vars,
                    batch_vars,
                    round_vars,
                    harness_vars >>

GrowNext == GrowCall \/ ExpandStart \/ ExpandStep \/ GrowReturn
GrowSpec == GrowInit /\ [][GrowNext]_vars

\* lines 180-182
Publish ==
    /\ pc = "finish"
    /\ weights_' = var_weights
    /\ attrs' = attrs \cup {"weights_", "support_"}
    /\ IF var_weights = NoneWeights
       THEN \* -var_weights raises after support_ was set to zeros
            /\ support_' = [f \in Features |-> FALSE]
            /\ EndFit("TypeError", attrs', support_')
            /\ UNCHANGED argsort_memo
       ELSE \E selected \in LeadingOutcomes(var_weights, n_features_to_select) :
            \* the build's sort answers the same input the same way
            /\ \A e \in argsort_memo : e[1] = var_weights => e[2] = selected
            /\ argsort_memo' = argsort_memo \cup {<< var_weights, selected >>}
            /\ support_' = SupportOf(selected, NFeatures)
            /\ EndFit("None", attrs', support_')
    /\ UNCHANGED << selector, n_features_to_select, n_submodels, seed,
                    data_vars, np_random,
                    random_state, selection_quantile, top_score, top_var_weights,
                    score, var_weights, i, best_score, best_var_weights, bsm,
                    grow_vars, query, n_fits, sampler_vars, bench_vars,
                    batch_vars,
                    round_vars,
                    harness_vars >>

\* _get_support_mask (lines 184-186): check_is_fitted passes as soon as self
\* carries an attribute whose name ends with an underscore
CheckIsFittedAlways(attributes) == TRUE
CheckIsFitted(attributes) == attributes # {}
GetSupportMask ==
    /\ pc = "idle"
    /\ query' = IF ~ CheckIsFitted(attrs)
                THEN [kind |-> "NotFittedError", mask |-> << >>]
                ELSE [kind |-> "mask", mask |-> support_]
    /\ UNCHANGED << estimator_vars, data_vars, argsort_memo, np_random,
                    local_vars, grow_vars, raised, n_fits, fit_log,
                    sampler_vars, bench_vars,
                    batch_vars,
                    round_vars,
                    harness_vars >>

Next ==
    \/ FitStart
    \/ InnerRound
    \/ OuterAccept
    \/ OuterReject
    \/ EarlyStop
    \/ NextRound
    \/ Publish
    \/ GetSupportMask

Spec == Init /\ [][Next]_vars

(***************************************************************************)
(* iVISSA.fit.  n_features_to_select stands for n_intervals_to_select *     *)
(* interval_width.  FitStart, InnerRound, OuterReject, Publish and         *)
(* GetSupportMask are the steps iVISSA shares with VISSA, line for line.   *)
(***************************************************************************)
IntervalInit ==
    /\ selector = "iVISSA"
    /\ n_features_to_select \in 1 .. NFeatures
    /\ n_submodels \in NSubmodelsChoices
    /\ seed \in 1 .. MaxSeed + 1
    /\ attrs = {}
    /\ weights_ = NoneWeights
    /\ support_ = << >>
    /\ relevant \in RelevantChoices
    /\ base_loss \in BaseLosses
    /\ noise_penalty \in {0, 1}
    /\ min_features \in MinFeaturesChoices
    /\ argsort_memo = {}
    /\ np_random = SeedState(0)
    /\ IdleLocals
    /\ IdleGrow
    /\ NoObservations
    /\ IdleHarness
    /\ IdleRounds
    /\ IdleBatch
    /\ IdleSampler
    /\ IdleBench

\* _yield_best_weights returns; if score > top_score: _grow_intervals is
\* called with top_var_weights and var_weights (lines 278-285)
IntervalAccept ==
    /\ selector = "iVISSA"
    /\ pc = "inner_done"
    /\ Accepts(best_score, top_score)
    /\ score' = best_score
    /\ var_weights' = best_var_weights
    /\ GrowEnter(top_var_weights, best_var_weights)
    /\ UNCHANGED << estimator_vars, data_vars, argsort_memo, np_random,
                    random_state, selection_quantile, top_score, top_var_weights,
                    i, best_score, best_var_weights, bsm,
                    borders, index, progress, probe, grown,
                    observer_vars, sampler_vars, bench_vars,
                    batch_vars,
                    round_vars,
                    harness_vars >>

\* _grow_intervals has returned (lines 285-287); the while loop calls
\* _yield_best_weights again (line 278)
IntervalGrown ==
    /\ selector = "iVISSA"
    /\ pc = "grown"
    /\ n_fits >= 1
    /\ var_weights' = grown.value.items
    /\ score' = grown.score
    /\ top_score' = NewTopScore(grown.score, top_score)
    /\ top_var_weights' = grown.value.items
    /\ best_score' = Rat(Sentinel, 1)
    /\ best_var_weights' = NoneWeights
    /\ i' = 0
    /\ pc' = "yield"
    /\ n_rounds' = n_rounds + 1
    /\ UNCHANGED << estimator_vars, data_vars, argsort_memo, np_random,
                    random_state, selection_quantile, bsm, grow_vars,
                    observer_vars, sampler_vars, bench_vars,
                    batch_vars,
                    harness_vars >>

IntervalNext ==
    \/ FitStart
    \/ InnerRound
    \/ IntervalAccept
    \/ ExpandStart
    \/ ExpandStep
    \/ GrowReturn
    \/ IntervalGrown
    \/ OuterReject
    \/ Publish
    \/ GetSupportMask

IntervalSpec == IntervalInit /\ [][IntervalNext]_vars

(***************************************************************************)
(* The outer loops of VISSA.fit and iVISSA.fit side by side, on an         *)
(* estimator that can be fitted on every submodel and whose errors are far *)
(* from the sentinel of the loops.                                         *)
(***************************************************************************)
BothInit == (Init \/ IntervalInit) /\ min_features = 0 /\ base_loss = 0
BothNext == Next \/ IntervalNext
BothSpec == BothInit /\ [][BothNext]_vars

(***************************************************************************)
(* Termination study: VISSA.fit and iVISSA.fit on an estimator that can be *)
(* fitted on every submodel, asked for one feature or for all of them.  A  *)
(* call that has started keeps running: the steps of a call in progress    *)
(* are weakly fair.  A step of the call is enabled exactly when pc is not  *)
(* "idle" (no state of the model is without a successor), so               *)
(* WF_vars(TermNext /\ pc # "idle") is written with that in the place of   *)
(* ENABLED.                                                                *)
(***************************************************************************)
TermInit ==
    /\ Init \/ IntervalInit
    /\ min_features = 0
    /\ n_features_to_select \in {1, NFeatures}
    /\ seed = 1
TermNext == Next \/ IntervalNext
CallKeepsRunning == []<>(pc = "idle") \/ []<><<TermNext>>_vars
TermSpec == TermInit /\ [][TermNext]_vars /\ CallKeepsRunning

(***************************************************************************)
(* Small-batch study: VISSA.fit and iVISSA.fit with every submodel count   *)
(* from 1 up to the first one whose top quantile is not empty.             *)
(***************************************************************************)
SmallCounts == 1 .. 20
SmallInit ==
    /\ selector \in {"VISSA", "iVISSA"}
    /\ n_features_to_select \in {1, NFeatures}
    /\ n_submodels \in SmallCounts
    /\ seed \in 1 .. MaxSeed + 1
    /\ attrs = {}
    /\ weights_ = NoneWeights
    /\ support_ = << >>
    /\ relevant \in RelevantChoices
    /\ base_loss = 0
    /\ noise_penalty \in {0, 1}
    /\ min_features \in MinFeaturesChoices
    /\ argsort_memo = {}
    /\ np_random = SeedState(0)
    /\ IdleLocals
    /\ IdleGrow
    /\ NoObservations
    /\ IdleHarness
    /\ IdleRounds
    /\ IdleBatch
    /\ IdleSampler
    /\ IdleBench
SmallNext == Next \/ IntervalNext
SmallSpec == SmallInit /\ [][SmallNext]_vars

(***************************************************************************)
(* Re-fit study: between two fit calls the caller may assign another seed  *)
(* to the attribute random_state of the estimator (as the benchmark does,  *)
(* src/benchmark/_benchmarking.py line 43) and another count to its        *)
(* attribute n_submodels, so that a fit call that raises can follow one    *)
(* that completed.                                                         *)
(***************************************************************************)
SetParams ==
    /\ pc = "idle"
    /\ n_fits >= 1
    /\ n_fits < MaxFits
    /\ \E sd \in 1 .. MaxSeed + 1, n_subs \in NSubmodelsChoices :
          /\ << sd, n_subs >> # << seed, n_submodels >>
          /\ seed' = sd
          /\ n_submodels' = n_subs
    /\ UNCHANGED << selector, n_features_to_select,
                    attrs, weights_, support_,
                    data_vars, argsort_memo, np_random,
                    local_vars, grow_vars, observer_vars, sampler_vars,
                    bench_vars, batch_vars, round_vars,
                    harness_vars >>

RefitInit ==
    /\ Init \/ IntervalInit
    /\ base_loss = 0
    /\ n_features_to_select = 1
    /\ seed = 1
    /\ noise_penalty = 1
    /\ min_features = 0
RefitNext == Next \/ IntervalNext \/ SetParams
RefitSpec == RefitInit /\ [][RefitNext]_vars

(***************************************************************************)
(* The results store: DataHandler (benchmarking/util/data_handling.py).    *)
(* Labels are strings.  An argument of a getter is None, one label or a    *)
(* list of labels: [type, items].  The frames have the methods as rows and *)
(* a MultiIndex as columns.                                                *)
(***************************************************************************)
\* self.datasets, self.methods, self.feature_descriptors, and the others
Datasets == {"corn", "soil"}
Methods == {"CARS", "VISSA"}
FeatureDescriptors == {"5", "10"}
Metrics == {"mse"}
Runs == {"0", "1"}
\* labels that the store does not hold
AbsentDataset == "wheat"
AbsentMethod == "SPA"
AbsentFeatures == "7"

NoneArg == [type |-> "None", items |-> << >>]
ArgsOver(present, absent) ==
    {NoneArg}
    \cup {[type |-> "scalar", items |-> << x >>] : x \in {present, absent}}
    \cup {[type |-> "list", items |-> xs] :
            xs \in {<< present >>, << absent >>, << present, absent >>}}

\* the names and the labels of the column levels of the frame of a getter
\* (lines 66-81)
LevelNames(getter) ==
    CASE getter = "get_regression_data" ->
            << "dataset", "n_features", "regression_metric", "run" >>
      [] getter = "get_stability_data" ->
            << "dataset", "n_features", "stability_metric" >>
      [] OTHER -> << "dataset", "n_features", "run" >>
LevelLabels(name) ==
    CASE name = "dataset" -> Datasets
      [] name = "n_features" -> FeatureDescriptors
      [] name = "run" -> Runs
      [] OTHER -> Metrics

\* _make_key: the row key, and the column key; None becomes slice(None), a
\* single n_features becomes a list.  The metric and the run are not given.
MakeKey(req) ==
    [method_key |-> IF req.method.type = "None"
                    THEN [type |-> "slice", items |-> << >>]
                    ELSE req.method,
     key |-> << IF req.dataset.type = "None"
                THEN [type |-> "slice", items |-> << >>]
                ELSE req.dataset,
                IF req.n_features.type = "None"
                THEN [type |-> "slice", items |-> << >>]
                ELSE [type |-> "list", items |-> req.n_features.items] >>
             \o [j \in 1 .. Len(LevelNames(req.getter)) - 2 |->
                    [type |-> "slice", items |-> << >>]]]

\* the labels of a key element that the labels of its level do not hold
Missing(element, labels) ==
    {j \in 1 .. Len(element.items) : element.items[j] \notin labels}

\* frame.loc[(method_key, key)] raises KeyError: for a missing row label, for
\* a missing single column label and, with a pandas that checks them, for a
\* list of column labels that holds a missing one
LocRaises(made, getter, strict) ==
    \/ Missing(made.method_key, Methods) # {}
    \/ \E level \in 1 .. Len(made.key) :
          /\ Missing(made.key[level], LevelLabels(LevelNames(getter)[level])) # {}
          /\ made.key[level].type = "scalar" \/ strict

\* _identify_key_error: the first missing item of the column key, by level
IdentifyKeyError(key, getter) ==
    LET names == LevelNames(getter)
        bad == {level \in 1 .. Len(key) :
                   Missing(key[level], LevelLabels(names[level])) # {}}
    IN  IF bad = {} THEN [found |-> FALSE, item |-> "", level |-> ""]
        ELSE LET level == CHOOSE l \in bad : \A l2 \in bad : l <= l2
                 miss == Missing(key[level], LevelLabels(names[level]))
                 first == CHOOSE j \in miss : \A j2 \in miss : j <= j2
             IN  [found |-> TRUE, item |-> key[level].items[first],
                  level |-> names[level]]

\* _protected: what the wrapped getter returns or raises
Protected(req, strict) ==
    LET made == MakeKey(req)
        key_error == IdentifyKeyError(made.key, req.getter)
    IN  IF LocRaises(made, req.getter, strict)
        THEN \* raise KeyError() from e
             [kind |-> "KeyError", message |-> FALSE, item |-> "", level |-> ""]
        ELSE IF key_error.found
        THEN \* raise KeyError(key_error)
             [kind |-> "KeyError", message |-> TRUE,
              item |-> key_error.item, level |-> key_error.level]
        ELSE [kind |-> "frame", message |-> FALSE, item |-> "", level |-> ""]

Getters == {"get_regression_data", "get_selection_data",
            "get_stability_data", "get_measurement_data"}
Requests ==
    [getter : Getters,
     dataset : ArgsOver("corn", AbsentDataset),
     method : ArgsOver("VISSA", AbsentMethod),
     n_features : ArgsOver("5", AbsentFeatures)]

StoreInit ==
    /\ selector = "VISSA"
    /\ n_features_to_select = 1
    /\ n_submodels = 1
    /\ seed = 0
    /\ attrs = {}
    /\ weights_ = NoneWeights
    /\ support_ = << >>
    /\ relevant = {}
    /\ base_loss = 0
    /\ noise_penalty = 0
    /\ min_features = 0
    /\ argsort_memo = {}
    /\ np_random = SeedState(0)
    /\ IdleLocals
    /\ IdleGrow
    /\ NoObservations
    /\ IdleHarness
    /\ IdleRounds
    /\ IdleBatch
    /\ IdleSampler
    /\ pandas_strict \in BOOLEAN
    /\ request = NoRequest
    /\ answer = NoAnswer
    /\ metric_log = << >>

\* a getter of the DataHandler is called
Get ==
    /\ \E req \in Requests :
          /\ request' = req
          /\ answer' = Protected(req, pandas_strict)
    /\ UNCHANGED << estimator_vars, data_vars, argsort_memo, np_random,
                    local_vars, grow_vars, observer_vars, sampler_vars,
                    pandas_strict, metric_log,
                    batch_vars,
                    round_vars,
                    harness_vars >>

StoreNext == Get
StoreSpec == StoreInit /\ [][StoreNext]_vars

(***************************************************************************)
(* ZucknickScore (benchmarking/util/metrics.py): the constructor, and the  *)
(* thresholding of a correlation by an object that was constructed.        *)
(***************************************************************************)
\* the thresholds tried: n/d from -1 to 2 and beyond
Thresholds == [n : 0 - MaxDen .. 2 * MaxDen, d : 1 .. MaxDen]
\* at most this many objects are constructed
MaxObjects == 2

\* if 0 <= correlation_threshold <= 1
ValidThresholdExclusive(t) == 0 < t.n /\ t.n < t.d
ValidThreshold(t) == 0 <= t.n /\ t.n <= t.d

MetricInit ==
    /\ selector = "VISSA"
    /\ n_features_to_select = 1
    /\ n_submodels = 1
    /\ seed = 0
    /\ attrs = {}
    /\ weights_ = NoneWeights
    /\ support_ = << >>
    /\ relevant = {}
    /\ base_loss = 0
    /\ noise_penalty = 0
    /\ min_features = 0
    /\ argsort_memo = {}
    /\ np_random = SeedState(0)
    /\ IdleLocals
    /\ IdleGrow
    /\ NoObservations
    /\ IdleHarness
    /\ IdleRounds
    /\ IdleBatch
    /\ IdleSampler
    /\ IdleBench

\* ZucknickScore(correlation_threshold=t) (lines 164-170): super().__init__
\* stores the name, then the threshold is stored or ValueError is raised
ZucknickInit ==
    /\ Len(metric_log) < MaxObjects
    /\ \E t \in Thresholds :
          metric_log' = Append(metric_log,
              IF ValidThreshold(t)
              THEN [arg |-> t, raised |-> "None",
                    attrs |-> {"metric_name", "correlation_threshold"},
                    correlation_threshold |-> t, calls |-> 0]
              ELSE [arg |-> t, raised |-> "ValueError",
                    attrs |-> {"metric_name"},
                    correlation_threshold |-> NoScore, calls |-> 0])
    /\ UNCHANGED << estimator_vars, data_vars, argsort_memo, np_random,
                    local_vars, grow_vars, observer_vars, sampler_vars,
                    pandas_strict, request, answer,
                    batch_vars,
                    round_vars,
                    harness_vars >>

\* a scoring call (_thresholded_correlation, line 179) on the object the last
\* constructor call returned; a constructor that raised returned no object
ZucknickCall ==
    /\ Len(metric_log) >= 1
    /\ metric_log[Len(metric_log)].raised = "None"
    /\ "correlation_threshold" \in metric_log[Len(metric_log)].attrs
    /\ metric_log[Len(metric_log)].calls = 0
    /\ metric_log' = [metric_log EXCEPT ![Len(metric_log)].calls = 1]
    /\ UNCHANGED << estimator_vars, data_vars, argsort_memo, np_random,
                    local_vars, grow_vars, observer_vars, sampler_vars,
                    pandas_strict, request, answer,
                    batch_vars,
                    round_vars,
                    harness_vars >>

MetricNext == ZucknickInit \/ ZucknickCall
MetricSpec == MetricInit /\ [][MetricNext]_vars

(***************************************************************************)
(* benchmark (benchmark/_benchmarking.py).  A class name is the tuple of   *)
(* the code points of its characters, which is what sorted compares.  The  *)
(* methods, the test model and the recorder are collaborators: a fit is    *)
(* what it was given (the training samples and the random_state of the     *)
(* method at that moment), and the support and the prediction registered   *)
(* are terms over that.                                                    *)
(***************************************************************************)
NameVIP == << 86, 73, 80 >>
NameVISSA == << 86, 73, 83, 83, 65 >>
NameIVISSA == << 105, 86, 73, 83, 83, 65 >>

\* random_state=None of a constructor
NoSeed == 0 - 1
\* the method objects a caller passes: VISSA and iVISSA carry random_state,
\* VIP(n_features_to_select, model_hyperparams) stands for a selector
\* without the attribute, and the fit of a VISSA with too few submodels
\* raises
MethodPool ==
    {[name |-> NameVISSA, has_random_state |-> TRUE,
      random_state |-> NoSeed, fit_raises |-> FALSE],
     [name |-> NameIVISSA, has_random_state |-> TRUE,
      random_state |-> NoSeed, fit_raises |-> FALSE],
     [name |-> NameVIP, has_random_state |-> FALSE,
      random_state |-> NoSeed, fit_raises |-> FALSE],
     [name |-> NameVISSA, has_random_state |-> TRUE,
      random_state |-> NoSeed, fit_raises |-> TRUE]}

\* a < b of two str
RECURSIVE NameLess(_, _)
NameLess(a, b) ==
    IF b = << >> THEN FALSE
    ELSE IF a = << >> THEN TRUE
    ELSE IF Head(a) # Head(b) THEN Head(a) < Head(b)
    ELSE NameLess(Tail(a), Tail(b))

\* sorted is stable: an entry goes behind every entry whose key is not
\* greater than its own
RECURSIVE InsertByName(_, _)
InsertByName(sorted, item) ==
    IF sorted = << >> THEN << item >>
    ELSE LET last == sorted[Len(sorted)]
         IN  IF NameLess(item.name, last.name)
             THEN Append(InsertByName(SubSeq(sorted, 1, Len(sorted) - 1),
                                      item), last)
             ELSE Append(sorted, item)
RECURSIVE SortedOnName(_)
SortedOnName(ms) ==
    IF ms = << >> THEN << >>
    ELSE InsertByName(SortedOnName(SubSeq(ms, 1, Len(ms) - 1)), ms[Len(ms)])

\* methods = sorted([(type(method).__name__, method) ...], key=tup[0])
SortedAsGiven(ms) == ms
SortedMethods(ms) == SortedOnName(ms)

\* random_state.randint(0, 1000000)
RandInt(s) == [value |-> NextRng(s) % SeedRange, rng |-> NextRng(s)]

\* train_test_split(data_x, data_y, train_size=train_size, random_state=seed):
\* a permutation made from the seed, the test samples are taken from its
\* front and the training samples behind them
TrainSize == NSamples - 1
TrainTestSplit(n_samples, train_size, sd) ==
    LET perm == ShuffledArange(n_samples, SeedState(sd)).x
        n_test == n_samples - train_size
    IN  [test |-> {perm[k] : k \in 0 .. n_test - 1},
         train |-> {perm[k] : k \in n_test .. n_samples - 1}]

NoEvent ==
    [call |-> "None", r |-> 0, method |-> << >>, has_random_state |-> FALSE,
     random_state |-> NoSeed, seed |-> NoSeed, train |-> {}, raised |-> FALSE]

RECURSIVE Tuples(_, _)
Tuples(set, n) ==
    IF n = 0 THEN {<< >>}
    ELSE Tuples(set, n - 1)
            \cup {Append(t, x) : t \in {u \in Tuples(set, n - 1) :
                                           Len(u) = n - 1}, x \in set}

\* benchmark(...) has been called with these arguments
HarnessInit ==
    /\ selector = "VISSA"
    /\ n_features_to_select = 1
    /\ n_submodels = 1
    /\ seed = 0
    /\ attrs = {}
    /\ weights_ = NoneWeights
    /\ support_ = << >>
    /\ relevant = {}
    /\ base_loss = 0
    /\ noise_penalty = 0
    /\ min_features = 0
    /\ argsort_memo = {}
    /\ np_random = SeedState(0)
    /\ IdleLocals
    /\ IdleGrow
    /\ NoObservations
    /\ IdleRounds
    /\ IdleBatch
    /\ IdleSampler
    /\ IdleBench
    /\ harness_pc = "called"
    /\ given_methods \in Tuples(MethodPool, MaxMethods)
    /\ methods = << >>
    /\ n_runs \in 0 .. MaxRuns
    /\ stability_metrics \in {<< >>, << "deng_score" >>,
                              << "deng_score", "zucknick_score" >>}
    /\ harness_rng \in 0 .. MaxSeed
    /\ run_r = 0
    /\ run_seed = 0
    /\ train_test = [train |-> {}, test |-> {}]
    /\ method_pos = 0
    /\ stab_pos = 0
    /\ pod = << >>
    /\ calls = << >>

HarnessOthers ==
    UNCHANGED << estimator_vars, data_vars, argsort_memo, np_random,
                 local_vars, grow_vars, observer_vars, sampler_vars,
                 bench_vars, batch_vars, round_vars >>

\* lines 26-32: the methods are sorted, the generator is made from the
\* argument, the recorder is created
BenchmarkStart ==
    /\ harness_pc = "called"
    /\ methods' = SortedMethods(given_methods)
    /\ harness_rng' = SeedState(harness_rng)
    /\ calls' = Append(calls, [NoEvent EXCEPT !.call = "check_random_state",
                                              !.seed = harness_rng])
    /\ pod' = << >>
    /\ run_r' = 0
    /\ harness_pc' = "run"
    /\ UNCHANGED << given_methods, n_runs, stability_metrics, run_seed,
                    train_test, method_pos, stab_pos >>
    /\ HarnessOthers

\* lines 38-40: the next run starts; with no method the inner loop is empty
RunStart ==
    /\ harness_pc = "run"
    /\ run_r < n_runs
    /\ LET drawn == RandInt(harness_rng)
       IN  /\ harness_rng' = drawn.rng
           /\ run_seed' = drawn.value
           /\ train_test' = TrainTestSplit(NSamples, TrainSize, drawn.value)
           /\ calls' = calls \o
                  << [NoEvent EXCEPT !.call = "randint", !.r = run_r,
                                     !.seed = drawn.value],
                     [NoEvent EXCEPT !.call = "train_test_split", !.r = run_r,
                                     !.seed = drawn.value,
                                     !.train = train_test'.train] >>
    /\ IF methods = << >>
       THEN /\ run_r' = run_r + 1
            /\ UNCHANGED << harness_pc, method_pos >>
       ELSE /\ method_pos' = 1
            /\ harness_pc' = "method"
            /\ UNCHANGED run_r
    /\ UNCHANGED << given_methods, methods, n_runs, stability_metrics,
                    stab_pos, pod >>
    /\ HarnessOthers

\* lines 41-59: one method of the run: the seed is assigned, the method is
\* fitted (an exception of fit leaves benchmark), the test model is fitted
\* on the support, the metric and the support are registered
MethodStep ==
    /\ harness_pc = "method"
    /\ LET method == methods[method_pos]
           seeded == IF method.has_random_state
                     THEN [method EXCEPT !.random_state = run_seed]
                     ELSE method
           fit == [NoEvent EXCEPT !.call = "fit", !.r = run_r,
                                  !.method = method.name,
                                  !.has_random_state = method.has_random_state,
                                  !.random_state = seeded.random_state,
                                  !.seed = run_seed,
                                  !.train = train_test.train,
                                  !.raised = method.fit_raises]
           support == [fitted_on |-> train_test.train,
                       random_state |-> seeded.random_state]
       IN  /\ methods' = [methods EXCEPT ![method_pos] = seeded]
           /\ calls' = Append(calls, fit)
           /\ IF method.fit_raises
              THEN /\ harness_pc' = "raised"
                   /\ UNCHANGED << pod, method_pos, run_r >>
              ELSE /\ pod' = pod \o
                         << [method |-> method.name, r |-> run_r,
                             item |-> "mean_squared_error",
                             value |-> [test |-> train_test.test,
                                        support |-> support]],
                            [method |-> method.name, r |-> run_r,
                             item |-> "support", value |-> support] >>
                   /\ IF method_pos < Len(methods)
                      THEN /\ method_pos' = method_pos + 1
                           /\ UNCHANGED << harness_pc, run_r >>
                      ELSE /\ run_r' = run_r + 1
                           /\ harness_pc' = "run"
                           /\ UNCHANGED method_pos
    /\ UNCHANGED << given_methods, n_runs, stability_metrics, harness_rng,
                    run_seed, train_test, stab_pos >>
    /\ HarnessOthers

\* line 62: the runs are over, mean and std are computed
Statistics ==
    /\ harness_pc = "run"
    /\ run_r >= n_runs
    /\ calls' = Append(calls, [NoEvent EXCEPT !.call = "mean_std_statistics"])
    /\ stab_pos' = 1
    /\ harness_pc' = "stability"
    /\ UNCHANGED << given_methods, methods, n_runs, stability_metrics,
                    harness_rng, run_r, run_seed, train_test, method_pos,
                    pod >>
    /\ HarnessOthers

\* lines 65-66: the next stability metric is called on the recorder
StabilityStep ==
    /\ harness_pc = "stability"
    /\ stab_pos <= Len(stability_metrics)
    /\ calls' = Append(calls, [NoEvent EXCEPT !.call = "stab_metric",
                                              !.r = stab_pos])
    /\ stab_pos' = stab_pos + 1
    /\ UNCHANGED << harness_pc, given_methods, methods, n_runs,
                    stability_metrics, harness_rng, run_r, run_seed,
                    train_test, method_pos, pod >>
    /\ HarnessOthers

\* line 68
BenchmarkReturn ==
    /\ harness_pc = "stability"
    /\ stab_pos > Len(stability_metrics)
    /\ harness_pc' = "returned"
    /\ UNCHANGED << given_methods, methods, n_runs, stability_metrics,
                    harness_rng, run_r, run_seed, train_test, method_pos,
                    stab_pos, pod, calls >>
    /\ HarnessOthers

HarnessNext ==
    \/ BenchmarkStart
    \/ RunStart
    \/ MethodStep
    \/ Statistics
    \/ StabilityStep
    \/ BenchmarkReturn
HarnessSpec == HarnessInit /\ [][HarnessNext]_vars

(***************************************************************************)
(* Properties.                                                             *)
(***************************************************************************)
\* number of true entries of row f of matrix m
RowCount(m, f) == Cardinality({c \in DOMAIN m[f] : m[f][c]})

\* the integer nearest to num/den, the even one of two equally near
NearestInteger(num, den) ==
    CHOOSE m \in 0 .. num :
        LET twice == IF 2 * num >= 2 * m * den THEN 2 * num - 2 * m * den
                                               ELSE 2 * m * den - 2 * num
        IN  twice < den \/ (twice = den /\ m % 2 = 0)

\* W_i * N lies exactly halfway between two integers
OnHalf(w, n) == 2 * ((w.n * n) % w.d) = w.d

\* a fit call has ended, and the last one ended without raising
Completed == pc = "idle" /\ n_fits >= 1 /\ raised = "None"

\* C1: row i of the matrix the sampler returns has exactly round(W_i * N)
\* true entries, for every weight vector in [0,1], every submodel count and
\* every generator state.
C1_ExactRowCounts ==
    \A k \in 1 .. Len(s_calls) : \A f \in DOMAIN s_weights :
        RowCount(s_calls[k].out.bsm, f)
            = NearestInteger(s_weights[f].n * s_n, s_weights[f].d)

\* a call on a weight exactly on a .5 boundary whose row was permuted:
\* a true entry stands behind a false one
C1_Witness ==
    \E k \in 1 .. Len(s_calls) : \E f \in DOMAIN s_weights :
        /\ OnHalf(s_weights[f], s_n)
        /\ \E c1, c2 \in 0 .. s_n - 1 :
              c1 < c2 /\ ~ s_calls[k].out.bsm[f][c1] /\ s_calls[k].out.bsm[f][c2]

\* C2: when fit ends, the published weights_ is the best weight vector the
\* outer loop tracked (top_var_weights), never that of a rejected round.
C2_PublishesBestWeights ==
    Completed => weights_ = top_var_weights

\* C3: the refinement loop returns the candidate weights of an improving
\* round, or the weights it was given when no round improved; never None.
C3_ReturnsWeights ==
    pc = "inner_done" =>
        /\ best_var_weights # NoneWeights
        /\ i = 0 => best_var_weights = top_var_weights

\* C4: the score the refinement loop holds is never below the sentinel, and
\* once a round was recorded as improving it is strictly above the sentinel.
C4_ScoreAboveSentinel ==
    pc \in {"yield", "inner_done"} =>
        /\ RatGE(best_score, Rat(Sentinel, 1))
        /\ (i > 0 \/ best_var_weights # NoneWeights)
              => RatGT(best_score, Rat(Sentinel, 1))

\* the loop returned after an improving round, on data whose scores lie
\* around the sentinel
C4_Witness ==
    /\ pc = "inner_done"
    /\ i > 0
    /\ best_var_weights # NoneWeights
    /\ base_loss > 0

\* C5 as claimed: exactly k selected, no unselected feature outweighs a
\* selected one, and of two equally weighted features the lower index is
\* selected first.
C5_StableTopK ==
    Completed =>
        /\ Cardinality({f \in Features : support_[f]}) = n_features_to_select
        /\ \A f, g \in Features :
              support_[f] /\ ~ support_[g] =>
                  /\ RatGE(weights_[f], weights_[g])
                  /\ RatEQ(weights_[f], weights_[g]) => f < g

\* C5 as amended: exactly k selected, no unselected feature outweighs a
\* selected one, and k = n_features selects every feature.
C5_TopK ==
    Completed =>
        /\ DOMAIN support_ = Features
        /\ Cardinality({f \in Features : support_[f]}) = n_features_to_select
        /\ \A f, g \in Features :
              support_[f] /\ ~ support_[g] => RatGE(weights_[f], weights_[g])
        /\ n_features_to_select = NFeatures => \A f \in Features : support_[f]

\* a fit that ended with a proper subset selected, some selected feature
\* strictly outweighing an unselected one, and a tie across the cut
C5_Witness ==
    /\ Completed
    /\ \E f, g \in Features :
          support_[f] /\ ~ support_[g] /\ RatGT(weights_[f], weights_[g])
    /\ \E f, g \in Features :
          support_[f] /\ ~ support_[g] /\ RatEQ(weights_[f], weights_[g])

C7_RefitSameSupport ==
    \A k1, k2 \in 1 .. Len(fit_log) : fit_log[k1].support_ = fit_log[k2].support_

\* two fit calls have ended normally, after more than one refinement round
C7_Witness ==
    /\ Len(fit_log) >= 2
    /\ Completed
    /\ RatGT(top_score, Rat(Sentinel, 1))
    /\ \E f, g \in Features : support_[f] /\ ~ support_[g]

\* C8: the sampler returns a matrix of n_features rows and n_submodels
\* columns of booleans, each row with between 0 and n_submodels true entries.
C8_SamplerShape ==
    \A k \in 1 .. Len(s_calls) :
        LET m == s_calls[k].out.bsm
        IN  /\ DOMAIN m = DOMAIN s_weights
            /\ \A f \in DOMAIN m :
                  /\ DOMAIN m[f] = 0 .. s_n - 1
                  /\ \A c \in DOMAIN m[f] : m[f][c] \in BOOLEAN
                  /\ RowCount(m, f) \in 0 .. s_n

\* a call on a single feature whose weight is exactly on a .5 boundary
C8_Witness ==
    /\ Len(s_calls) >= 1
    /\ DOMAIN s_weights = {0}
    /\ OnHalf(s_weights[0], s_n)
    /\ s_n > 1

\* C9: a support query made before any fit call has completed fails with
\* NotFittedError and returns no mask.
C9_NotFittedBeforeFit ==
    (query.kind # "none" /\ \A k \in 1 .. Len(fit_log) : fit_log[k].raised # "None")
        => (query.kind = "NotFittedError" /\ query.mask = << >>)

\* the number of features whose weight is at least (n_subs - 0.5) / n_subs
CertainCount ==
    Cardinality({f \in Features :
        2 * n_submodels * var_weights[f].n
            >= (2 * n_submodels - 1) * var_weights[f].d})

\* C10: after a round was accepted the outer loop stops at once if and only
\* if at least n_features_to_select weights are certain; otherwise it starts
\* another round.
C10_EarlyStopIff ==
    [][pc = "accepted" =>
          /\ (pc' = "finish") <=> (CertainCount >= n_features_to_select)
          /\ (pc' = "yield") <=> (CertainCount < n_features_to_select)]_vars

\* a second refinement round under way although some weights are certain
C10_Witness ==
    /\ pc = "yield"
    /\ RatGT(top_score, Rat(Sentinel, 1))
    /\ CertainCount >= 1
    /\ CertainCount = n_features_to_select - 1

\* C11: interval expansion never probes or indexes a feature outside
\* [0, n_features - 1], and so never ends with an IndexError.
C11_ExpansionInBounds ==
    /\ probe.at # "None" => probe.index \in DOMAIN var_weights
    /\ raised # "IndexError"

\* the scenario of C12: feature 5 alone is newly at the threshold, its
\* neighbours 3, 4, 6 and 7 were not at the threshold, and y depends on
\* exactly 4, 5 and 6, so that adding 4 and adding 6 improves the score and
\* adding 3 or 7 does not
C12_Scenario ==
    /\ pc = "grown"
    /\ new_features = << 5 >>
    /\ relevant = {4, 5, 6}
    /\ Selected(top_var_weights, n_submodels) \cap {3, 4, 6, 7} = {}

\* C12 as claimed: in the scenario grow_intervals returns a feature list
\* that contains 4, 5 and 6 and neither 3 nor 7.
C12_ReturnsFeatureList ==
    C12_Scenario =>
        /\ grown.value.type = "features"
        /\ \A f \in {4, 5, 6} :
              \E j \in DOMAIN grown.value.items : grown.value.items[j] = f
        /\ \A f \in {3, 7} :
              \A j \in DOMAIN grown.value.items : grown.value.items[j] # f

\* C12 as amended: in the scenario grow_intervals returns the new weight
\* vector, in which 4, 5 and 6 are at or above the threshold (4 and 6 with
\* weight 1) and 3 and 7 are below it, and the score of the grown set.
C12_ReturnsGrownWeights ==
    C12_Scenario =>
        /\ grown.value.type = "weights"
        /\ DOMAIN grown.value.items = GrowFeatures
        /\ \A f \in {4, 5, 6} :
              RatGE(grown.value.items[f], Threshold(n_submodels))
        /\ \A f \in {4, 6} : grown.value.items[f] = Rat(1, 1)
        /\ \A f \in {3, 7} :
              ~ RatGE(grown.value.items[f], Threshold(n_submodels))
        /\ RatGT(grown.score,
                 Rat(Evaluate(MaskOf(Ascending(
                        Selected(top_var_weights, n_submodels) \cup {5}),
                        GrowFeats)), 1))

\* the call returned in the scenario, after it had probed 3 and 7
C12_Witness ==
    /\ C12_Scenario
    /\ borders = << 3, 7 >>
    /\ Len(features.items) >= 3

\* some task of the evaluation batch of matrix fails
SomeTaskFails(matrix) ==
    \E c \in 0 .. n_submodels - 1 :
        Cardinality({f \in DOMAIN matrix : matrix[f][c]}) < min_features

\* C13: when a task of the evaluation batch of a refinement round fails, the
\* batch is not evaluated again, no weight or score is updated from it, and
\* the fit call ends at once with the failure, publishing nothing.
C13_BatchFailureSurfaces ==
    [][(pc = "yield" /\ SomeTaskFails(bsm')) =>
          /\ pc' = "idle"
          /\ raised' = "FitFailed"
          /\ fit_log' = Append(fit_log, [raised |-> "FitFailed", attrs |-> attrs,
                                          support_ |-> support_])
          /\ UNCHANGED << i, best_score, best_var_weights, top_score,
                          top_var_weights, score, var_weights,
                          attrs, weights_, support_, n_fits >>]_vars

\* a fit call ended by a failed task of a later batch, after rounds that
\* improved the weights
C13_Witness ==
    /\ raised = "FitFailed"
    /\ pc = "idle"
    /\ SomeTaskFails(bsm)
    /\ \E c \in 0 .. n_submodels - 1 :
          Cardinality({f \in DOMAIN bsm : bsm[f][c]}) >= min_features
    /\ best_var_weights # NoneWeights

\* the absent labels a request names, each with the level it is missing from
AbsentNamed(req) ==
    {<< req.dataset.items[j], "dataset" >> : j \in Missing(req.dataset, Datasets)}
    \cup {<< req.n_features.items[j], "n_features" >> :
             j \in Missing(req.n_features, FeatureDescriptors)}
    \cup {<< req.method.items[j], "method" >> : j \in Missing(req.method, Methods)}

\* C14: a getter of the results store called with an absent dataset, method
\* or feature configuration raises a KeyError whose message names a missing
\* item and the level it is missing from.
C14_AbsentKeyNamed ==
    (request.getter # "None" /\ AbsentNamed(request) # {}) =>
        /\ answer.kind = "KeyError"
        /\ answer.message
        /\ << answer.item, answer.level >> \in AbsentNamed(request)

\* C15: ZucknickScore constructed with a threshold outside [0,1] raises
\* ValueError, stores no threshold and is never used for scoring; constructed
\* with a threshold inside [0,1], bounds included, it stores that threshold.
C15_ThresholdChecked ==
    \A j \in 1 .. Len(metric_log) :
        LET made == metric_log[j]
            inside == 0 * made.arg.d <= made.arg.n /\ made.arg.n <= 1 * made.arg.d
        IN  /\ inside => /\ made.raised = "None"
                         /\ made.correlation_threshold = made.arg
            /\ ~ inside => /\ made.raised = "ValueError"
                           /\ "correlation_threshold" \notin made.attrs
                           /\ made.calls = 0

\* the upper bound 1 was accepted as threshold and stored, then a threshold
\* above 1 was rejected
C15_Witness ==
    /\ Len(metric_log) = 2
    /\ metric_log[1].arg.n = metric_log[1].arg.d
    /\ metric_log[1].raised = "None"
    /\ metric_log[1].calls = 0
    /\ metric_log[2].arg.n > metric_log[2].arg.d
    /\ metric_log[2].raised = "ValueError"

\* C16: every round of the refinement loop samples its matrix around the
\* current weights: the input weights in the first round, afterwards the
\* weights updated by the preceding improving round.  A matrix sampled
\* around weights W has round(W_f * N) true entries in row f.
C16_SamplesAroundCurrentWeights ==
    [][pc = "yield" =>
          LET current == IF i = 0 THEN top_var_weights ELSE best_var_weights
          IN  \A f \in DOMAIN bsm' :
                  RowCount(bsm', f)
                      = NearestInteger(current[f].n * n_submodels, current[f].d)]_vars

\* the last refinement round of the running call improved the weights
LastRoundImproved ==
    \/ pc = "yield" /\ i >= 1
    \/ pc = "inner_done" /\ i = InnerRounds

\* C17: after an improving round with top-quantile count q there are q
\* columns of that round's matrix, none of them scoring lower than a column
\* left out, such that the candidate weight of every feature is the number
\* of these columns that include the feature, divided by q; so every
\* candidate weight is a multiple of 1/q in [0,1].
C17_CandidateIsTopFraction ==
    LastRoundImproved =>
        LET q == selection_quantile
            columns == 0 .. n_submodels - 1
            scores == Materialize([c \in columns |->
                          Evaluate([f \in DOMAIN bsm |-> bsm[f][c]])])
        IN  /\ \A f \in Features :
                  /\ best_var_weights[f].d = q
                  /\ best_var_weights[f].n \in 0 .. q
            /\ \E top \in [1 .. q -> columns] :
                  /\ \A r1, r2 \in 1 .. q : top[r1] = top[r2] => r1 = r2
                  /\ \A c \in columns : \A r \in 1 .. q :
                        (\A r2 \in 1 .. q : top[r2] # c) => scores[c] <= scores[top[r]]
                  /\ \A f \in Features :
                        best_var_weights[f].n
                            = Cardinality({r \in 1 .. q : bsm[f][top[r]]})

\* an improving round with q = 2 whose two best columns agree on one
\* feature and differ on another
C17_Witness ==
    /\ LastRoundImproved
    /\ selection_quantile = 2
    /\ \E f, g \in Features :
          best_var_weights[f] = Rat(1, 2) /\ best_var_weights[g] = Rat(2, 2)
    /\ \E c1, c2 \in 0 .. n_submodels - 1 :
          Evaluate([f \in DOMAIN bsm |-> bsm[f][c1]])
              # Evaluate([f \in DOMAIN bsm |-> bsm[f][c2]])

\* the sum of the k highest scores of the columns cols of the matrix
RECURSIVE BestSum(_, _, _)
BestSum(matrix, cols, k) ==
    IF k = 0 THEN 0
    ELSE LET value(c) == Evaluate([f \in DOMAIN matrix |-> matrix[f][c]])
             best == CHOOSE c \in cols : \A c2 \in cols : value(c2) <= value(c)
         IN  value(best) + BestSum(matrix, cols \ {best}, k - 1)

\* C18: one call of the refinement loop performs at least one and at most
\* five rounds: it returns only after a round, a round is only started with
\* fewer than five rounds done, a round whose top-quantile mean does not
\* strictly exceed the running best ends the call and changes neither the
\* best score nor the best weights, and an improving round is followed by
\* another round unless it was the fifth.
C18_AtMostFiveRounds ==
    [][/\ (pc' = "inner_done" /\ pc # "inner_done") => pc = "yield"
       /\ pc' = "yield" => i' < InnerRounds
       /\ pc = "yield" =>
             LET q == selection_quantile
                 top_sum == BestSum(bsm', 0 .. n_submodels - 1, q)
             IN  IF top_sum * best_score.d > best_score.n * q
                 THEN /\ best_score' = Rat(top_sum, q)
                      /\ i' = i + 1
                      /\ pc' = IF i + 1 < 5 THEN "yield" ELSE "inner_done"
                 ELSE /\ pc' = "inner_done"
                      /\ UNCHANGED << i, best_score, best_var_weights >>]_vars

\* a call that returned because its fifth round, too, had improved
C18_Witness ==
    /\ pc = "inner_done"
    /\ i = 5
    /\ best_var_weights # NoneWeights

\* C19: in the outer loop of fit the best score changes only by rising
\* strictly; a round whose returned score is strictly above the best score
\* is accepted, and the first round whose returned score is not (an equal
\* score included) ends the loop and leaves best score and best weights.
C19_StrictlyRisingBestScore ==
    [][/\ (pc # "idle" /\ top_score' # top_score) => RatGT(top_score', top_score)
       /\ pc = "inner_done" =>
             IF best_score.n * top_score.d > top_score.n * best_score.d
             THEN /\ pc' = IF selector = "VISSA" THEN "accepted" ELSE "grow"
                  /\ score' = best_score
                  /\ selector = "VISSA" => top_score' = best_score
             ELSE /\ pc' = "finish"
                  /\ UNCHANGED << top_score, top_var_weights >>
       /\ (selector = "iVISSA" /\ pc = "grown") =>
             /\ top_score' = score
             /\ RatGE(score, best_score)]_vars

\* an iVISSA fit whose loop accepted a round and then ended on a round that
\* returned exactly the best score so far
C19_Witness ==
    /\ selector = "iVISSA"
    /\ pc = "finish"
    /\ RatEQ(score, top_score)
    /\ RatGT(top_score, Rat(Sentinel, 1))

\* C20: a call of _grow_intervals that has ended (by returning or by raising;
\* the out-of-range probe of C11 set aside) has run the expansion to
\* completion for each newly confirmed feature, however many there are, and
\* the features it expanded around were at the threshold in the new weights
\* and below it in the prior weights.
C20_ExpandsEveryNewFeature ==
    (pc \in {"grown", "idle"} /\ raised # "IndexError") =>
        /\ grow_i = Len(new_features)
        /\ \A k \in 1 .. Len(new_features) :
              /\ new_features[k] \in Selected(var_weights, n_submodels)
              /\ new_features[k] \notin Selected(top_var_weights, n_submodels)

\* C21: in an iteration of the expansion that probes a neighbour, a
\* neighbour at or above the threshold is passed over without an evaluation
\* and its border moves one step outwards; a neighbour below the threshold
\* is evaluated and, if the score of the feature set with it is strictly
\* above the current score, is appended, gets weight 1, makes that score the
\* current one and moves its border one step outwards; otherwise feature
\* set, weights, score and border stay as they are.
C21_AbsorbOrStrictlyImprove ==
    [][(/\ pc = "expand"
        /\ borders[index + 1] \in DOMAIN var_weights
        /\ index = 1 \/ borders[1] >= 0) =>
          LET b == borders[index + 1]
              outwards == IF index = 0 THEN << borders[1] - 1, borders[2] >>
                                       ELSE << borders[1], borders[2] + 1 >>
              with == [f \in DOMAIN var_weights |->
                          f = b \/ \E j \in DOMAIN features.items :
                                      features.items[j] = f]
          IN  IF RatGE(var_weights[b], Threshold(n_submodels))
              THEN /\ ~ probe'.evaluated
                   /\ borders' = outwards
                   /\ UNCHANGED << features, var_weights, score >>
              ELSE /\ probe'.evaluated
                   /\ IF Evaluate(with) * score.d > score.n
                      THEN /\ features'.items = Append(features.items, b)
                           /\ var_weights' = [var_weights EXCEPT ![b] = Rat(1, 1)]
                           /\ score' = Rat(Evaluate(with), 1)
                           /\ borders' = outwards
                      ELSE UNCHANGED << features, var_weights, score, borders >>]_vars

\* an expansion that absorbed a neighbour, added one, and declined one whose
\* score equalled the current score
C21_Witness ==
    /\ pc = "expand"
    /\ noise_penalty = 0
    /\ probe.evaluated
    /\ probe.index \notin relevant
    /\ var_weights[probe.index] = Rat(1, 2)
    /\ \E f \in Selected(top_var_weights, n_submodels) :
          borders[1] < f /\ f < borders[2]
    /\ \E f \in Selected(var_weights, n_submodels) :
          /\ f \notin Selected(top_var_weights, n_submodels)
          /\ \A k \in DOMAIN new_features : new_features[k] # f

\* C22 as claimed: the iterations of an expansion take the left and the
\* right border in turn, starting with the left; an iteration probes its
\* border (the left one unless it has left the array); and the expansion
\* ends at the end of a pass exactly when neither border moved in that pass.
C22_StopsAfterFirstIdlePass ==
    [][/\ (pc = "grow" /\ pc' = "expand") => index' = 0
       /\ (pc = "expand" /\ pc' = "expand") => index' = 1 - index
       /\ (pc = "expand" /\ pc' = "grow") => index = 1
       /\ (pc = "expand" /\ (index = 1 \/ borders[1] >= 0)) =>
             probe'.at = "var_weights" /\ probe'.index = borders[index + 1]
       /\ (pc = "expand" /\ index = 1 /\ pc' # "idle") =>
             (pc' = "grow" <=> borders' = probe.pass_start)]_vars

\* C22 as amended: the same, but the first pass never ends the expansion;
\* it ends at the end of the first later pass in which neither border moved.
C22_StopsAfterIdlePassButFirst ==
    [][/\ (pc = "grow" /\ pc' = "expand") => index' = 0
       /\ (pc = "expand" /\ pc' = "expand") => index' = 1 - index
       /\ (pc = "expand" /\ pc' = "grow") => index = 1
       /\ (pc = "expand" /\ (index = 1 \/ borders[1] >= 0)) =>
             probe'.at = "var_weights" /\ probe'.index = borders[index + 1]
       /\ (pc = "expand" /\ index = 1 /\ pc' # "idle") =>
             (pc' = "grow" <=> (borders' = probe.pass_start /\ probe.passes >= 1))]_vars

\* an expansion that returned after three passes: in the first and in the
\* second only the left border moved and the right neighbour was probed
\* both times, in the third neither moved
C22_Witness ==
    /\ pc = "grow"
    /\ grow_i = 1
    /\ probe.passes = 3
    /\ borders[1] = new_features[1] - 3
    /\ borders[2] = new_features[1] + 1
    /\ relevant = {new_features[1] - 2, new_features[1] - 1, new_features[1]}

\* the scores of the batch of bsm, by submodel index
BatchScores ==
    [c \in 0 .. n_submodels - 1 |-> EvaluateGraded(Submodel(bsm, c))]
AllScoresDistinct ==
    LET scores == Materialize(BatchScores)
    IN  \A c1 \in DOMAIN scores, c2 \in DOMAIN scores :
            c1 # c2 => scores[c1] # scores[c2]

\* the subsets of k elements of a set of integers
RECURSIVE KSubsets(_, _)
KSubsets(set, k) ==
    IF k = 0 THEN {{}}
    ELSE UNION {{t \cup {x} : t \in KSubsets({y \in set : y > x}, k - 1)} :
                  x \in set}

\* C23: whatever the order in which the tasks of a batch completed, every
\* result carries the score of the column whose index it carries, the new
\* weights are the per-feature share of a set of selection_quantile columns
\* that no other column outscores and the returned score is their mean; and
\* when no two scores of the batch are equal, weights and score are those
\* obtained from the results in submission order.
C23_ReassociatedByIndex ==
    (i = 1 /\ completed # << >>) =>
        LET results == Results(bsm, completed)
            scores == Materialize(BatchScores)
            in_order == TopModels(scores, selection_quantile)
        IN  /\ \A k \in DOMAIN results :
                  results[k].score = scores[results[k].index]
            /\ \E top \in KSubsets(0 .. n_submodels - 1, selection_quantile) :
                  /\ \A c \in top, c2 \in (0 .. n_submodels - 1) \ top :
                        scores[c] >= scores[c2]
                  /\ best_var_weights =
                        [f \in DOMAIN bsm |->
                            Rat(Cardinality({c \in top : bsm[f][c]}),
                                selection_quantile)]
                  /\ best_score.d = selection_quantile
                  /\ \E c \in top :
                        best_score.n >= selection_quantile * scores[c]
            /\ AllScoresDistinct =>
                  /\ best_var_weights =
                        CandidateWeights(bsm, in_order, selection_quantile)
                  /\ best_score = AvgTopScores(scores, in_order)

\* a batch without two equal scores that completed in the reverse of the
\* submission order, the last task first
C23_Witness ==
    /\ i = 1
    /\ AllScoresDistinct
    /\ completed[1] = n_submodels - 1
    /\ completed[2] = n_submodels - 2

\* C24: the generator of a fit call is created when the call starts and is
\* advanced by nothing but the sampler, by exactly one shuffle in every
\* refinement round, whether or not the evaluation batch of the sampled
\* matrix then fails; the batch evaluated is the matrix of that shuffle;
\* every other step, the steps of the interval expansion included, leaves
\* the generator as it is, and nothing touches the global generator.
C24_OneShufflePerRound ==
    [][/\ pc = "idle" =>
             (random_state' = random_state
                \/ (n_fits' = n_fits + 1 /\ random_state' = SeedState(seed)))
       /\ pc = "yield" =>
             /\ random_state' = (random_state * 25173 + 13849) % 65536
             /\ bsm' = ProduceSubmodels(top_var_weights, n_submodels,
                                        random_state).bsm
       /\ pc \notin {"idle", "yield"} => random_state' = random_state
       /\ np_random' = np_random]_vars

\* an interval expansion in progress in a fit whose generator has made three
\* shuffles
C24_Witness ==
    /\ selector = "iVISSA"
    /\ pc = "expand"
    /\ probe.passes >= 1
    /\ random_state = NextRng(NextRng(NextRng(SeedState(seed))))

\* the values of the scorer, the sums of k of them, and the scores a round
\* of the outer loop can return (a mean of selection_quantile values, or a
\* single value after interval growth) that are above the sentinel, each
\* as its multiple by selection_quantile
EvaluateValues == {Evaluate(mask) : mask \in [Features -> BOOLEAN]}
RECURSIVE SumsOf(_)
SumsOf(k) ==
    IF k = 0 THEN {0}
    ELSE {s + v : s \in SumsOf(k - 1), v \in EvaluateValues}
ScoresAboveSentinel ==
    {s \in SumsOf(selection_quantile)
            \cup {selection_quantile * v : v \in EvaluateValues} :
        s > selection_quantile * Sentinel}

\* C25: a fit call of VISSA or iVISSA that has started ends, and it never
\* makes more outer rounds than one more than the number of distinct
\* scores above the sentinel that a round can return.
C25_FitTerminates ==
    /\ [](n_rounds <= 1 + Cardinality(ScoresAboveSentinel))
    /\ (pc # "idle") ~> (pc = "idle")

\* an iVISSA fit that ended normally after as many outer rounds as the
\* bound allows: one accepted round, with the only score above the
\* sentinel, and the round that ended the loop
C25_Witness ==
    /\ selector = "iVISSA"
    /\ pc = "idle"
    /\ raised = "None"
    /\ n_rounds = 2
    /\ n_rounds = 1 + Cardinality(ScoresAboveSentinel)

\* C26: the top-quantile count of every submodel count below 20 is 0 (and
\* that of 20 is 1); a fit with such a count computes 0, its first
\* refinement round ends the call with an error (the one of unpacking the
\* empty list of top submodels, unless a task of the batch failed first),
\* and the call publishes neither weights_ nor support_.
C26_EmptyQuantileFailsFit ==
    [][/\ \A n \in 0 .. 19 : SelectionQuantile(n) = 0
       /\ SelectionQuantile(20) = 1
       /\ (pc = "yield" /\ n_submodels < 20) =>
             /\ selection_quantile = 0
             /\ n_rounds = 1 /\ i = 0
             /\ pc' = "idle"
             /\ raised' = IF SomeTaskFails(bsm') THEN "FitFailed"
                                                ELSE "ValueError"
             /\ UNCHANGED << attrs, weights_, support_ >>
             /\ fit_log' = Append(fit_log, [raised |-> raised', attrs |-> attrs,
                                            support_ |-> support_])]_vars

\* a first fit with 7 submodels has raised on the empty top quantile and
\* left the estimator without attributes
C26_Witness ==
    /\ n_submodels = 7
    /\ pc = "idle"
    /\ n_fits = 1
    /\ raised = "ValueError"
    /\ attrs = {}
    /\ weights_ = NoneWeights

\* the errors a fit call raises inside its outer loop
LoopErrors == {"ValueError", "FitFailed", "IndexError", "AttributeError"}

\* C27: no step of the outer loop of a fit call assigns weights_ or
\* support_, so a call that raises inside the loop leaves the estimator's
\* attributes as it found them: a support query made when every fit call so
\* far has raised inside its loop fails with NotFittedError, and after a
\* re-fit that raised inside its loop weights_ and support_ are those of the
\* fit call before it.
C27_FailedFitPublishesNothing ==
    [][/\ pc \notin {"idle", "finish"} =>
             UNCHANGED << attrs, weights_, support_ >>
       /\ \A k \in DOMAIN fit_log' :
             fit_log'[k].raised \in LoopErrors =>
                /\ fit_log'[k].attrs = IF k = 1 THEN {} ELSE fit_log'[k - 1].attrs
                /\ fit_log'[k].support_ = IF k = 1 THEN << >>
                                                   ELSE fit_log'[k - 1].support_
       /\ (/\ pc = "idle"
           /\ fit_log # << >>
           /\ \A k \in DOMAIN fit_log : fit_log[k].raised \in LoopErrors
           /\ n_fits' = n_fits /\ seed' = seed /\ n_submodels' = n_submodels) =>
             query'.kind = "NotFittedError"
       /\ (/\ pc \notin {"idle", "finish"} /\ pc' = "idle"
           /\ \E k \in DOMAIN fit_log : fit_log[k].raised = "None") =>
             /\ raised' \in LoopErrors
             /\ weights_' # NoneWeights
             /\ {"weights_", "support_"} \subseteq attrs'
             /\ support_' = fit_log[Len(fit_log)].support_]_vars

\* a first fit completed, a parameter was changed, the second fit raised inside
\* its loop, and the support query answers with the first fit's mask
C27_Witness ==
    /\ Len(fit_log) = 2
    /\ fit_log[1].raised = "None"
    /\ fit_log[2].raised \in LoopErrors
    /\ query.kind = "mask"
    /\ query.mask = fit_log[1].support_
    /\ weights_ # NoneWeights

\* C28: while _grow_intervals runs, from _newly_selected to its return, the
\* working feature list holds no index twice and holds exactly the features
\* whose weight in the new weight vector is at or above the threshold; a
\* step of the expansion that lengthens the list appends one feature whose
\* weight was below the threshold and sets that weight to 1.
C28_FeatureListIsSelectedSet ==
    [][/\ pc' \in {"grow", "expand", "grown"} =>
             /\ \A j, k \in DOMAIN features'.items :
                   j # k => features'.items[j] # features'.items[k]
             /\ {features'.items[j] : j \in DOMAIN features'.items}
                   = {f \in DOMAIN var_weights' :
                        2 * n_submodels * var_weights'[f].n
                          >= (2 * n_submodels - 1) * var_weights'[f].d}
       /\ (pc = "expand" /\ features' # features) =>
             \E b \in DOMAIN var_weights :
                /\ features'.items = Append(features.items, b)
                /\ 2 * n_submodels * var_weights[b].n
                     < (2 * n_submodels - 1) * var_weights[b].d
                /\ var_weights' = [var_weights EXCEPT ![b] = Rat(1, 1)]]_vars

\* an expansion in progress whose list holds a feature that was at the
\* threshold before, the newly confirmed one and two appended ones
C28_Witness ==
    /\ pc = "expand"
    /\ features.type = "list"
    /\ Selected(top_var_weights, n_submodels) # {}
    /\ Len(features.items) >=
          Cardinality(Selected(top_var_weights, n_submodels)) + Len(new_features) + 2

\* C29: no step of _grow_intervals lowers the score or a weight of the new
\* weight vector: the score stays or rises, every weight stays or becomes 1
\* from below 1, the prior weight vector is never changed; and the call
\* returns the new weight vector as the steps left it, with that score.
C29_GrowOnlyRaises ==
    [][(pc \in {"grow_call", "grow", "expand"}) =>
          (/\ score'.n * score.d >= score.n * score'.d
           /\ DOMAIN var_weights' = DOMAIN var_weights
           /\ \A f \in DOMAIN var_weights :
                 \/ var_weights'[f] = var_weights[f]
                 \/ /\ var_weights'[f] = Rat(1, 1)
                    /\ var_weights[f].n < var_weights[f].d
           /\ top_var_weights' = top_var_weights
           /\ (pc' = "grown" =>
                 (grown'.value.items = var_weights /\ grown'.score = score)))]_vars

\* a call that returned after raising the score and three weights
C29_Witness ==
    /\ pc = "grown"
    /\ grown.value.items = var_weights
    /\ Cardinality({f \in DOMAIN var_weights :
            var_weights[f] = Rat(1, 1) /\ f \in relevant}) >= 3
    /\ Cardinality(Selected(var_weights, n_submodels)) >= 3
    /\ Len(new_features) = 1
    /\ Len(features.items) >= 3
    /\ RatGT(grown.score, Rat(0 - 2 * Cardinality(relevant), 1))

FitCalls == {k \in DOMAIN calls : calls[k].call = "fit"}
DrawsOf(r) == {k \in DOMAIN calls : calls[k].call = "randint" /\ calls[k].r = r}
RunsEntered == IF harness_pc \in {"method", "raised"} THEN run_r + 1 ELSE run_r
Recorded == {k \in DOMAIN pod : pod[k].item = "support"}
RECURSIVE Advanced(_, _)
Advanced(s, k) == IF k = 0 THEN s ELSE NextRng(Advanced(s, k - 1))

\* C30: in a call of benchmark the generator is advanced once per run that
\* was entered and one seed is drawn in each; every fit of a run is given
\* the training samples of the split made from that run's seed; a method
\* with a random_state attribute carries that seed when it is fitted; the
\* fits of a run come in ascending order of the class names, one for each
\* method given; and a stability metric is called only after n_runs times
\* the number of methods fits and registrations of a support.
C30_HarnessDiscipline ==
    harness_pc \notin {"idle", "called"} =>
      /\ \A r \in 0 .. MaxRuns :
            Cardinality(DrawsOf(r)) = IF r < RunsEntered THEN 1 ELSE 0
      /\ harness_rng = Advanced(SeedState(calls[1].seed), RunsEntered)
      /\ \A k \in FitCalls :
            LET draw == CHOOSE d \in DrawsOf(calls[k].r) : TRUE
            IN  /\ calls[k].seed = calls[draw].seed
                /\ calls[k].train =
                      TrainTestSplit(NSamples, TrainSize,
                                     calls[draw].seed).train
                /\ calls[k].has_random_state =>
                      calls[k].random_state = calls[draw].seed
                /\ draw < k
      /\ \A k \in FitCalls, l \in FitCalls :
            (k < l /\ calls[k].r = calls[l].r) =>
                /\ ~ NameLess(calls[l].method, calls[k].method)
                /\ calls[k].train = calls[l].train
      /\ \A r \in 0 .. run_r - 1 : \A m \in MethodPool :
            Cardinality({k \in FitCalls : calls[k].r = r
                                          /\ calls[k].method = m.name})
              = Cardinality({g \in DOMAIN given_methods :
                                given_methods[g].name = m.name})
      /\ \A k \in DOMAIN calls :
            calls[k].call = "stab_metric" =>
                /\ Cardinality(Recorded) = n_runs * Len(given_methods)
                /\ Cardinality({f \in FitCalls : ~ calls[f].raised /\ f < k})
                      = n_runs * Len(given_methods)
C30_Witness ==
    /\ harness_pc = "returned"
    /\ n_runs = 2
    /\ Len(given_methods) = 2
    /\ NameLess(given_methods[2].name, given_methods[1].name)
    /\ ~ given_methods[2].has_random_state
    /\ given_methods[1].has_random_state
    /\ stab_pos = 3
    /\ Cardinality(Recorded) = 4
    /\ \E k \in DrawsOf(0), l \in DrawsOf(1) : calls[k].seed # calls[l].seed
    /\ \E k \in FitCalls, l \in FitCalls : calls[k].train # calls[l].train

====
